---- MODULE Spec2Model ----
(***************************************************************************)
(* FlexMaps (src/src/visual.ts, src/src/settings.ts): a Power BI visual    *)
(* that imports SVG markup, binds row colours to labelled elements,        *)
(* overlays data polygons with a keyed d3 join and keeps a zoom/pan        *)
(* viewport.  The module models the Visual object as a state machine with  *)
(* one action per event handler.                                           *)
(*                                                                         *)
(* Conventions                                                             *)
(*  - a JavaScript string that the code trims, lower-cases or parses is a  *)
(*    sequence of one-character strings, so that trim(), toLowerCase() and *)
(*    Number() are computed and not assumed;                               *)
(*  - a JavaScript value of mixed type is a tagged record (field t);       *)
(*  - currentScale is an exact rational 9^n9 * 11^n11 * 10^e10: the wheel  *)
(*    factors 0.9 and 1.1 and the clamps 0.1 and 10 are all of that form.  *)
(*    IEEE-754 rounding of the products is not modelled.                   *)
(***************************************************************************)
EXTENDS Integers, Sequences, FiniteSets, TLC

VARIABLES
    formattingSettings,   \* this.formattingSettings (Undefined before the first update)
    lastSvgContent,       \* this.lastSvgContent
    lastDataPoints,       \* this.lastDataPoints
    lastShowTooltips,     \* this.lastShowTooltips
    lastPolygons,         \* this.lastPolygons
    currentScale,         \* this.currentScale
    currentTranslateX,    \* this.currentTranslateX
    currentTranslateY,    \* this.currentTranslateY
    isDragging,           \* this.isDragging
    startX,               \* this.startX
    startY,               \* this.startY
    transform,            \* this.svgContainer.style.transform
    cursor,               \* this.target.style.cursor
    svgContainer,         \* child nodes of this.svgContainer
    tooltipContainer,     \* this.tooltipContainer: its display style and content
    pendingReads,         \* FileReader objects whose onload has not run yet
    host,                 \* the environment: what this.host's selection-id builder
                          \* offers, how select() of its selection manager ends,
                          \* and which DOM mutation throws
    hist                  \* observation of the last event (not program state)

vars == <<formattingSettings, lastSvgContent, lastDataPoints, lastShowTooltips,
          lastPolygons, currentScale, currentTranslateX, currentTranslateY,
          isDragging, startX, startY, transform, cursor, svgContainer,
          pendingReads, host, hist, tooltipContainer>>

viewportVars == <<currentScale, currentTranslateX, currentTranslateY,
                  isDragging, startX, startY>>

renderVars == <<lastSvgContent, lastDataPoints, lastShowTooltips, lastPolygons,
                svgContainer>>

----------------------------------------------------------------------------
(* JavaScript values *)

Undefined == [t |-> "undefined"]
Null      == [t |-> "null"]
Str(s)    == [t |-> "string", s |-> s]

IsNullish(v) == v.t \in {"undefined", "null"}

----------------------------------------------------------------------------
(* Strings as character sequences *)

WhiteSpace == {" "}

RECURSIVE TrimStart(_)
TrimStart(s) ==
    IF s # <<>> /\ Head(s) \in WhiteSpace THEN TrimStart(Tail(s)) ELSE s

RECURSIVE TrimEnd(_)
TrimEnd(s) ==
    IF s # <<>> /\ s[Len(s)] \in WhiteSpace
    THEN TrimEnd(SubSeq(s, 1, Len(s) - 1))
    ELSE s

\* String.prototype.trim
Trim(s) == TrimEnd(TrimStart(s))

LowerChar(c) ==
    CASE c = "A" -> "a"
      [] c = "B" -> "b"
      [] c = "P" -> "p"
      [] OTHER -> c

\* String.prototype.toLowerCase
ToLowerCase(s) == [i \in 1..Len(s) |-> LowerChar(s[i])]

\* String(x).trim().toLowerCase(): the join key of a label or an id
LabelKey(s) == ToLowerCase(Trim(s))

----------------------------------------------------------------------------
(* Number(String(v)) for the decimal literals the settings pane can hold.  *)
(* A number is kept in tenths (one fractional digit); NaN is a tag.        *)

NaN == [nan |-> TRUE, tenths |-> 0]
Num(n) == [nan |-> FALSE, tenths |-> n]

DigitValue(c) ==
    CASE c = "0" -> 0 [] c = "1" -> 1 [] c = "2" -> 2 [] c = "3" -> 3
      [] c = "4" -> 4 [] c = "5" -> 5 [] c = "6" -> 6 [] c = "7" -> 7
      [] c = "8" -> 8 [] c = "9" -> 9 [] OTHER -> -1

IsDigits(s) == \A i \in 1..Len(s) : DigitValue(s[i]) >= 0

RECURSIVE DigitsValue(_, _)
DigitsValue(s, acc) ==
    IF s = <<>> THEN acc ELSE DigitsValue(Tail(s), 10 * acc + DigitValue(Head(s)))

\* an unsigned decimal literal: digits, optionally "." and at most one digit
UnsignedTenths(s) ==
    LET dots == {i \in 1..Len(s) : s[i] = "."} IN
    IF s = <<>> THEN NaN
    ELSE IF dots = {} THEN
        IF IsDigits(s) THEN Num(10 * DigitsValue(s, 0)) ELSE NaN
    ELSE IF Cardinality(dots) > 1 THEN NaN
    ELSE LET d    == CHOOSE i \in dots : TRUE
             ip   == SubSeq(s, 1, d - 1)
             fp   == SubSeq(s, d + 1, Len(s))
         IN IF ~IsDigits(ip) \/ ~IsDigits(fp) \/ Len(fp) > 1
               \/ (ip = <<>> /\ fp = <<>>)
            THEN NaN
            ELSE Num(10 * DigitsValue(ip, 0) + DigitsValue(fp, 0))

\* Number(s): StringToNumber; white space is trimmed and "" is 0
ToNumber(s) ==
    LET body == Trim(s) IN
    IF body = <<>> THEN Num(0)
    ELSE IF Head(body) = "-" THEN
        LET u == UnsignedTenths(Tail(body)) IN
        IF u.nan THEN NaN ELSE Num(0 - u.tenths)
    ELSE IF Head(body) = "+" THEN UnsignedTenths(Tail(body))
    ELSE UnsignedTenths(body)

MaxRun        == 6     \* the longest run of zoom-out events hist counts
MaxWheelSteps == 26    \* wheel factors accumulated in currentScale

Min(a, b) == IF a < b THEN a ELSE b
Max(a, b) == IF a > b THEN a ELSE b

----------------------------------------------------------------------------
(* Exact arithmetic for currentScale.                                      *)
(* A scale is 9^n9 * 11^n11 * 10^e10 (n9, n11 >= 0, e10 any integer).      *)
(* Two scales are compared through their decimal digits, least             *)
(* significant digit first, because the products exceed the machine word.  *)

Scale(a, b, c) == [n9 |-> a, n11 |-> b, e10 |-> c]

One   == Scale(0, 0, 0)      \* 1
Tenth == Scale(0, 0, -1)     \* 0.1
Ten   == Scale(0, 0, 1)      \* 10
ZoomOutFactor == Scale(1, 0, -1)   \* 0.9
ZoomInFactor  == Scale(0, 1, -1)   \* 1.1

\* x * y
ScaleTimes(x, y) == Scale(x.n9 + y.n9, x.n11 + y.n11, x.e10 + y.e10)

RECURSIVE MulDigits(_, _, _)
MulDigits(d, m, carry) ==
    IF d = <<>>
    THEN IF carry = 0 THEN <<>>
         ELSE <<carry % 10>> \o MulDigits(<<>>, m, carry \div 10)
    ELSE LET v == Head(d) * m + carry
         IN <<v % 10>> \o MulDigits(Tail(d), m, v \div 10)

RECURSIVE PowDigits(_, _, _)
PowDigits(d, m, n) == IF n = 0 THEN d ELSE PowDigits(MulDigits(d, m, 0), m, n - 1)

\* the digits of 9^a * 11^b for the exponents the wheel bound allows
PowerDigits ==
    [a \in 0..MaxWheelSteps + 1 |->
        [b \in 0..MaxWheelSteps + 1 |-> PowDigits(PowDigits(<<1>>, 9, a), 11, b)]]

\* digits of 9^n9 * 11^n11 * 10^shift
ScaleDigits(x, shift) == [i \in 1..shift |-> 0] \o PowerDigits[x.n9][x.n11]

DigitsLess(a, b) ==
    \/ Len(a) < Len(b)
    \/ /\ Len(a) = Len(b)
       /\ \E i \in 1..Len(a) :
            /\ a[i] < b[i]
            /\ \A j \in (i + 1)..Len(a) : a[j] = b[j]

\* x < y
ScaleLess(x, y) ==
    LET low == Min(x.e10, y.e10)
    IN DigitsLess(ScaleDigits(x, x.e10 - low), ScaleDigits(y, y.e10 - low))

\* Math.max, Math.min on scales
ScaleMax(x, y) == IF ScaleLess(x, y) THEN y ELSE x
ScaleMin(x, y) == IF ScaleLess(y, x) THEN y ELSE x

----------------------------------------------------------------------------
(* Formatting settings (src/src/settings.ts)                               *)

\* the slice values of a freshly constructed VisualFormattingSettingsModel
DefaultSettings ==
    [svgContent         |-> "",
     showTooltips       |-> TRUE,
     enableZoom         |-> TRUE,
     enableTransparency |-> TRUE,
     transparencyPercent |-> Str(<<"4", "0">>),
     highlightBorders   |-> FALSE]

SettingNames == DOMAIN DefaultSettings

\* FormattingSettingsService.populateFormattingSettingsModel: a new model,
\* each slice overwritten by the value the data view's metadata objects
\* carry for it; an absent data view leaves the defaults.
\* dataView.objects is a record of the slices the host persisted a value for.
PopulateFormattingSettingsModel(dataView) ==
    IF dataView = Undefined THEN DefaultSettings
    ELSE [n \in SettingNames |->
            IF n \in DOMAIN dataView.objects THEN dataView.objects[n]
            ELSE DefaultSettings[n]]

\* the zoom/pan setting read as enabled while no settings exist: what the
\* zoom/pan guard must exclude
EnableZoomValueDefaulted(fs) == IF fs = Undefined THEN TRUE ELSE fs.enableZoom = TRUE

\* this.formattingSettings?.displaySettings?.enableZoom?.value
EnableZoomValue(fs) == IF fs = Undefined THEN FALSE ELSE fs.enableZoom = TRUE

\* the opacity computed without the clamp of 245 / 154: what the opacity
\* property must exclude
PolygonOpacityUnclamped(fs) ==
    LET polyEnabled == IF fs = Undefined THEN TRUE ELSE fs.enableTransparency
        raw         == IF fs = Undefined \/ IsNullish(fs.transparencyPercent)
                       THEN <<"4", "0">>
                       ELSE fs.transparencyPercent.s
        parsed      == ToNumber(raw)
        polyPercent == IF parsed.nan THEN 400 ELSE parsed.tenths
    IN IF polyEnabled THEN polyPercent ELSE 1000

\* the opacity both update() and the upload handler compute, in thousandths
\* (percent is kept in tenths, so percent / 100 is tenths / 1000)
PolygonOpacity(fs) ==
    LET polyEnabled == IF fs = Undefined THEN TRUE ELSE fs.enableTransparency
        raw         == IF fs = Undefined \/ IsNullish(fs.transparencyPercent)
                       THEN <<"4", "0">>
                       ELSE fs.transparencyPercent.s
        parsed      == ToNumber(raw)
        polyPercent == IF parsed.nan THEN 400 ELSE parsed.tenths
        clamped     == Max(0, Min(1000, polyPercent))
    IN IF polyEnabled THEN clamped ELSE 1000

----------------------------------------------------------------------------
(* Table cells and String()                                                *)

\* a wrapper cell { value, objects }
Obj(v, o) == [t |-> "object", value |-> v, objects |-> o]

\* formatting metadata: { fill: { solid: { color } } }, { <key>: { color } },
\* or an object that carries no colour
FillSolid(c)   == [t |-> "objects", shape |-> "fillSolid", color |-> c]
NestedColor(c) == [t |-> "objects", shape |-> "nestedColor", color |-> c]
NoColorObjects == [t |-> "objects", shape |-> "plain", color |-> <<>>]

ObjectObject ==
    <<"[", "o", "b", "j", "e", "c", "t", " ", "O", "b", "j", "e", "c", "t", "]">>

\* String(v)
JsString(v) ==
    CASE v.t = "string"    -> v.s
      [] v.t = "null"      -> <<"n", "u", "l", "l">>
      [] v.t = "undefined" -> <<"u", "n", "d", "e", "f", "i", "n", "e", "d">>
      [] OTHER             -> ObjectObject

\* `p${idx}` for a row index
DecimalChars(n) ==
    LET d(k) == CASE k = 0 -> "0" [] k = 1 -> "1" [] k = 2 -> "2" [] k = 3 -> "3"
                  [] k = 4 -> "4" [] k = 5 -> "5" [] k = 6 -> "6" [] k = 7 -> "7"
                  [] k = 8 -> "8" [] OTHER -> "9"
    IN IF n < 10 THEN <<d(n)>> ELSE <<d(n \div 10), d(n % 10)>>

SyntheticId(idx) == <<"p">> \o DecimalChars(idx)

\* row[i]; an index outside the row reads undefined
Cell(row, i) == IF i \in 1..Len(row) THEN row[i] ELSE Undefined

\* the index the forEach over the columns leaves in a role's variable:
\* every matching column overwrites it, -1 (here 0) when none matches
RoleIndex(columns, roles) ==
    LET hits == {i \in 1..Len(columns) : columns[i].roles \cap roles # {}}
    IN IF hits = {} THEN 0 ELSE CHOOSE i \in hits : \A j \in hits : j <= i

----------------------------------------------------------------------------
(* Identity resolver: host.createSelectionIdBuilder()                      *)
(* host.builder is "absent" (no createSelectionIdBuilder), "table"         *)
(* (withTable is a function), "category" (only withCategory is) or         *)
(* "throws" (a builder step throws).                                       *)

SelectionId(rowIndex, via) == [t |-> "selectionId", row |-> rowIndex, via |-> via]

\* visual.ts 304-311: the polygon row's selection id
PolygonSelectionId(theHost, dataView, idx) ==
    IF theHost.builder = "table" /\ dataView.table # Undefined
    THEN SelectionId(idx, "table")
    ELSE Undefined

\* a resolver that tries the category before the table: what the order of the
\* builder methods must exclude
DataPointSelectionIdCategoryFirst(theHost, dataView, rowIndex) ==
    CASE theHost.builder \in {"table", "category"} /\ dataView.categories > 0
            -> SelectionId(rowIndex, "category")
      [] theHost.builder = "table" /\ dataView.table # Undefined
            -> SelectionId(rowIndex, "table")
      [] OTHER -> Undefined

\* visual.ts 425-438: the data point row's selection id
DataPointSelectionId(theHost, dataView, rowIndex) ==
    CASE theHost.builder = "table" /\ dataView.table # Undefined
            -> SelectionId(rowIndex, "table")
      [] theHost.builder = "category" /\ dataView.categories > 0
            -> SelectionId(rowIndex, "category")
      [] OTHER -> Undefined

----------------------------------------------------------------------------
(* View model builder: parsePolygonsFromDataView and parseDataView         *)
(* A data view is [objects, table, categories]; table is Undefined or      *)
(* [t |-> "table", columns, rows]; a column is [roles, displayName,        *)
(* objects]; row and column indices are 0-based in the code and 1-based in *)
(* the sequences here.                                                     *)

IsObject(cell) == cell.t = "object"

\* visual.ts 282-284
RawPoints(ptsCell) ==
    IF IsObject(ptsCell) /\ ptsCell.value # Undefined
    THEN JsString(ptsCell.value)
    ELSE IF IsNullish(ptsCell) THEN <<>> ELSE JsString(ptsCell)

\* String(x).trim() || null
TrimmedOrNull(s) == IF Trim(s) = <<>> THEN Null ELSE Str(Trim(s))

\* visual.ts 287-299
PolygonColor(row, colorIndex) ==
    LET ccell == Cell(row, colorIndex) IN
    IF colorIndex = 0 \/ IsNullish(ccell) THEN Null
    ELSE IF IsObject(ccell)
         THEN IF ccell.value # Undefined
              THEN TrimmedOrNull(JsString(ccell.value))
              ELSE Null
         ELSE TrimmedOrNull(JsString(ccell))

\* visual.ts 301
PolygonId(row, fieldNumberIndex, idx) ==
    IF fieldNumberIndex > 0 /\ ~IsNullish(Cell(row, fieldNumberIndex))
    THEN JsString(Cell(row, fieldNumberIndex))
    ELSE SyntheticId(idx)

PolygonVM(id, points, color, selectionId) ==
    [id |-> id, points |-> points, color |-> color, selectionId |-> selectionId]

\* visual.ts 263-317
parsePolygonsFromDataView(theHost, dataView) ==
    IF dataView.table = Undefined THEN <<>>
    ELSE
    LET columns == dataView.table.columns
        rows    == dataView.table.rows
        pointsIndex      == RoleIndex(columns, {"points", "polygonPoints"})
        colorIndex       == RoleIndex(columns, {"layerColor", "color"})
        fieldNumberIndex == RoleIndex(columns, {"fieldNumber"})
        one(k) ==
            LET row       == rows[k]
                rawPoints == RawPoints(Cell(row, pointsIndex))
            IN IF pointsIndex = 0 \/ rawPoints = <<>> THEN <<>>
               ELSE <<PolygonVM(PolygonId(row, fieldNumberIndex, k - 1),
                                rawPoints,
                                PolygonColor(row, colorIndex),
                                PolygonSelectionId(theHost, dataView, k - 1))>>
        result[k \in 0..Len(rows)] ==
            IF k = 0 THEN <<>> ELSE result[k - 1] \o one(k)
    IN result[Len(rows)]

\* visual.ts 348-386: the colour a formatting object carries, or null
getColorFromObject(obj) ==
    IF obj = Undefined \/ obj.shape = "plain" THEN Null ELSE Str(obj.color)

Truthy(v) == v.t = "object" \/ v.t = "objects" \/ (v.t = "string" /\ v.s # <<>>)

\* visual.ts 391-394
FieldNumber(row, fieldNumberIndex) ==
    LET fieldCell == Cell(row, fieldNumberIndex)
        picked    == IF IsObject(fieldCell) /\ fieldCell.value # Undefined
                     THEN fieldCell.value ELSE fieldCell
    IN IF fieldNumberIndex = 0 \/ IsNullish(picked) THEN <<>>
       ELSE Trim(JsString(picked))

\* visual.ts 397-420
LayerColorValue(row, columns, layerColorIndex) ==
    IF layerColorIndex = 0 THEN <<>>
    ELSE
    LET colorCell == Cell(row, layerColorIndex)
        fromValue ==
            IF IsObject(colorCell)
            THEN IF colorCell.value # Undefined
                 THEN IF colorCell.value = Null THEN <<>>
                      ELSE Trim(JsString(colorCell.value))
                 ELSE <<>>
            ELSE IF IsNullish(colorCell) THEN <<>>
                 ELSE Trim(JsString(colorCell))
        fromCell ==
            IF IsObject(colorCell) /\ fromValue = <<>>
               /\ Truthy(getColorFromObject(colorCell.objects))
            THEN getColorFromObject(colorCell.objects).s
            ELSE fromValue
        fromColumn == getColorFromObject(columns[layerColorIndex].objects)
    IN IF fromCell = <<>> /\ Truthy(fromColumn) THEN fromColumn.s ELSE fromCell

\* tooltip[colName] = v on an insertion-ordered record
SetEntry(entries, k, v) ==
    IF \E i \in 1..Len(entries) : entries[i].k = k
    THEN [i \in 1..Len(entries) |->
            IF entries[i].k = k THEN [k |-> k, v |-> v] ELSE entries[i]]
    ELSE Append(entries, [k |-> k, v |-> v])

\* visual.ts 343: displayName || `col${index}`
TooltipName(column, index) ==
    IF Truthy(column.displayName) THEN column.displayName.s
    ELSE <<"c", "o", "l">> \o DecimalChars(index)

\* visual.ts 441-457: the tooltip record of a row, Undefined when it has no key
RowTooltip(row, columns) ==
    LET step(entries, i) ==
            LET cell == Cell(row, i)
                name == TooltipName(columns[i], i - 1)
            IN IF "tooltipFields" \notin columns[i].roles \/ IsNullish(cell)
               THEN entries
               ELSE IF IsObject(cell)
                    THEN IF cell.value = Undefined THEN entries
                         ELSE SetEntry(entries, name,
                                IF cell.value = Null THEN <<>>
                                ELSE Trim(JsString(cell.value)))
                    ELSE SetEntry(entries, name, Trim(JsString(cell)))
        acc[i \in 0..Len(columns)] ==
            IF i = 0 THEN <<>> ELSE step(acc[i - 1], i)
    IN IF acc[Len(columns)] = <<>> THEN Undefined
       ELSE [t |-> "tooltip", entries |-> acc[Len(columns)]]

DataPoint(fieldNumber, layerColor, color, tooltip, selectionId) ==
    [fieldNumber |-> fieldNumber, layerColor |-> layerColor, color |-> color,
     tooltip |-> tooltip, selectionId |-> selectionId]

\* visual.ts 319-464
parseDataView(theHost, dataView) ==
    IF dataView.table = Undefined THEN <<>>
    ELSE
    LET columns == dataView.table.columns
        rows    == dataView.table.rows
        fieldNumberIndex == RoleIndex(columns, {"fieldNumber"})
        layerColorIndex  == RoleIndex(columns, {"layerColor"})
        one(k) ==
            LET row             == rows[k]
                fieldNumber     == FieldNumber(row, fieldNumberIndex)
                layerColorValue == LayerColorValue(row, columns, layerColorIndex)
            IN IF fieldNumber = <<>> THEN <<>>
               ELSE <<DataPoint(fieldNumber,
                                layerColorValue,
                                IF layerColorValue # <<>>
                                THEN Str(Trim(layerColorValue)) ELSE Undefined,
                                RowTooltip(row, columns),
                                DataPointSelectionId(theHost, dataView, k - 1))>>
        dataPoints[k \in 0..Len(rows)] ==
            IF k = 0 THEN <<>> ELSE dataPoints[k - 1] \o one(k)
    IN dataPoints[Len(rows)]

----------------------------------------------------------------------------
(* Markup importer: DOMParser.parseFromString(text, "image/svg+xml") and   *)
(* doc.querySelector("svg") on the texts the model feeds in.               *)
(* A parsed svg is [svg |-> TRUE, elements, markers]: the elements that    *)
(* carry a data-label attribute, in document order, each with its tag and  *)
(* the tags of its descendants, and the number of polygon elements of      *)
(* class data-polygon the markup itself holds.                             *)

EmptyText     == ""
MalformedText == "<svg><g></svg>"
NoSvgText     == "<div/>"
PlanText      == "<svg><g data-label='a'><rect/><text/></g><rect data-label=' B'/></svg>"
MarkedText    == "<svg><polygon class='data-polygon'/><g data-label='A '><path/></g></svg>"
UseText       == "<svg><defs><path id='s'/></defs><g data-label='a'><rect/><use href='#s'/></g><g data-label='b'><circle/></g></svg>"

\* hrefs[i] is the href attribute of the i-th descendant, <<>> when it has none
Labeled(label, tag, descendants) ==
    [label |-> label, tag |-> tag, descendants |-> descendants,
     hrefs |-> [i \in 1..Len(descendants) |-> <<>>]]

\* an element that carries an id attribute
Identified(id, tag) == [id |-> id, tag |-> tag]

NoSvg == [svg |-> FALSE, elements |-> <<>>, markers |-> 0, defs |-> <<>>]

\* visual.ts 524-526: parsedSvg, or NoSvg when querySelector("svg") is null.
\* DOMParser.parseFromString does not throw: for a text that is not
\* well-formed the HTML standard has it return a document whose only element
\* is a parsererror element, which is what is modelled here.
ParseSvg(text) ==
    CASE text = PlanText ->
            [svg |-> TRUE,
             elements |-> <<Labeled(<<"a">>, "g", <<"rect", "text">>),
                            Labeled(<<" ", "B">>, "rect", <<>>)>>,
             markers |-> 0, defs |-> <<>>]
      [] text = MarkedText ->
            [svg |-> TRUE,
             elements |-> <<Labeled(<<"A", " ">>, "g", <<"path">>)>>,
             markers |-> 1, defs |-> <<>>]
      [] text = UseText ->
            [svg |-> TRUE,
             elements |-> <<[Labeled(<<"a">>, "g", <<"rect", "use">>)
                                EXCEPT !.hrefs[2] = <<"#", "s">>],
                            Labeled(<<"b">>, "g", <<"circle">>)>>,
             markers |-> 0,
             defs |-> <<Identified(<<"s">>, "path")>>]
      [] OTHER -> NoSvg

----------------------------------------------------------------------------
(* Rendered nodes                                                          *)

DefaultColor  == <<"#", "C", "C", "C", "C", "C", "C">>   \* "#CCCCCC"
NeutralStroke == <<"#", "3", "3", "3">>                  \* "#333"
NoOpacity     == -1    \* the fill-opacity attribute is not set

NeutralPlaceholder == [tag |-> "div", marker |-> "neutral"]
ErrorPlaceholder   == [tag |-> "div", marker |-> "error"]

\* a polygon element of class data-polygon; datum is its __data__
PolygonNode(origin, datum, points, fill, fillOpacity, stroke, strokeWidth) ==
    [origin |-> origin, datum |-> datum, points |-> points, fill |-> fill,
     fillOpacity |-> fillOpacity, stroke |-> stroke, strokeWidth |-> strokeWidth]

\* a markup polygon that carries bound data, so that the key function does
\* not throw on it: what the frame property of the overlay must exclude
BoundMarkupPolygon ==
    PolygonNode("markup", [id |-> <<"m">>, points |-> <<>>, color |-> Null,
                           selectionId |-> Undefined],
                <<>>, Undefined, NoOpacity, Undefined, Undefined)

\* a polygon.data-polygon element that came with the imported markup
MarkupPolygon == PolygonNode("markup", Undefined, <<>>, Undefined, NoOpacity,
                             Undefined, Undefined)

\* a container that is never emptied: what the surface properties must exclude
KeepContainer(children) == children

\* the container is emptied child by child (476-478, 520-522, 668-670)
ClearContainer(children) == <<>>

----------------------------------------------------------------------------
(* Polygon overlay renderer: d3 keyed data join (visual.ts 707-753)        *)

\* the key function d => d.id ?? d.points
PolygonKey(d) == d.id

NoJoin == [ran |-> FALSE, threw |-> FALSE, enter |-> <<>>, update |-> <<>>,
           exit |-> <<>>]

\* selection.data(polygons, key): d3's bindKey.  enter and update list data
\* indices, exit lists node indices; matched[j] is the node bound to datum j.
\* Evaluating the key on a node without __data__ throws.
BindKey(nodes, data) ==
    LET N == 1..Len(nodes)
        D == 1..Len(data)
        firstNode(i) == \A h \in N : h < i =>
                            PolygonKey(nodes[h].datum) # PolygonKey(nodes[i].datum)
        nodeFor(j) == {i \in N : firstNode(i)
                                 /\ PolygonKey(nodes[i].datum) = PolygonKey(data[j])}
        firstDatum(j) == \A h \in D : h < j => PolygonKey(data[h]) # PolygonKey(data[j])
        isUpdate(j) == firstDatum(j) /\ nodeFor(j) # {}
        taken(i) == \E j \in D : isUpdate(j) /\ i \in nodeFor(j)
    IN IF \E i \in N : nodes[i].datum = Undefined
       THEN [threw |-> TRUE, enter |-> {}, update |-> {}, exit |-> {},
             matched |-> <<>>]
       ELSE [threw |-> FALSE,
             enter  |-> {j \in D : ~isUpdate(j)},
             update |-> {j \in D : isUpdate(j)},
             exit   |-> {i \in N : ~taken(i)},
             matched |-> [j \in D |-> IF isUpdate(j)
                                      THEN CHOOSE i \in nodeFor(j) : TRUE ELSE 0]]

\* the attributes ENTER gives a new polygon (715-721)
EnterPolygon(d, defaultColor, polygonOpacity, highlightBorders) ==
    LET fill == IF d.color = Null THEN defaultColor ELSE d.color.s
    IN PolygonNode("overlay", d, d.points, Str(fill), polygonOpacity,
                   Str(IF highlightBorders THEN fill ELSE NeutralStroke), Str(<<"1">>))

\* the attributes UPDATE leaves on a bound polygon once its transition ends (740-746)
UpdatePolygon(node, d, defaultColor, polygonOpacity, highlightBorders) ==
    LET fill == IF d.color = Null THEN defaultColor ELSE d.color.s
    IN [node EXCEPT !.datum = d, !.points = d.points, !.fill = Str(fill),
                    !.fillOpacity = polygonOpacity,
                    !.stroke = Str(IF highlightBorders THEN fill ELSE NeutralStroke)]

SetToSeq(S) ==
    LET f[k \in 0..Cardinality(S)] ==
            IF k = 0 THEN <<>>
            ELSE Append(f[k - 1],
                        CHOOSE x \in S : Cardinality({y \in S : y < x}) = k - 1)
    IN f[Cardinality(S)]

\* renderPolygonsD3: the polygon.data-polygon elements of the svg afterwards,
\* and what the join did.  An entered polygon is inserted before the node of
\* the next updated datum (EnterNode._next), else appended; a throw inside the
\* try leaves the elements as they were.
renderPolygonsD3(nodes, polygons, defaultColor, polygonOpacity, highlightBorders) ==
    LET b == BindKey(nodes, polygons)
        D == 1..Len(polygons)
        nextUpdate(j) == {h \in b.update : h > j}
        updated(i) ==
            IF \E j \in b.update : b.matched[j] = i
            THEN LET j == CHOOSE j \in b.update : b.matched[j] = i
                 IN UpdatePolygon(nodes[i], polygons[j], defaultColor,
                                  polygonOpacity, highlightBorders)
            ELSE nodes[i]
        \* entered polygons that go right before node i
        before(i) ==
            IF \E j \in b.update : b.matched[j] = i
            THEN LET j == CHOOSE j \in b.update : b.matched[j] = i
                 IN {e \in b.enter : j \in nextUpdate(e)
                        /\ \A h \in nextUpdate(e) : j <= h}
            ELSE {}
        entered(E) ==
            LET es == SetToSeq(E)
            IN [k \in 1..Len(es) |->
                    EnterPolygon(polygons[es[k]], defaultColor, polygonOpacity,
                                 highlightBorders)]
        walk[i \in 0..Len(nodes)] ==
            IF i = 0 THEN <<>>
            ELSE walk[i - 1] \o entered(before(i))
                 \o (IF i \in b.exit THEN <<>> ELSE <<updated(i)>>)
        tail == {e \in b.enter : nextUpdate(e) = {}}
    IN IF b.threw
       THEN [nodes |-> nodes,
             join  |-> [ran |-> TRUE, threw |-> TRUE, enter |-> <<>>,
                        update |-> <<>>, exit |-> <<>>]]
       ELSE [nodes |-> walk[Len(nodes)] \o entered(tail),
             join  |-> [ran |-> TRUE, threw |-> FALSE,
                        enter  |-> [k \in 1..Cardinality(b.enter) |->
                                      PolygonKey(polygons[SetToSeq(b.enter)[k]])],
                        update |-> [k \in 1..Cardinality(b.update) |->
                                      PolygonKey(polygons[SetToSeq(b.update)[k]])],
                        exit   |-> [k \in 1..Cardinality(b.exit) |->
                                      PolygonKey(nodes[SetToSeq(b.exit)[k]].datum)]]]

----------------------------------------------------------------------------
(* Label binder (visual.ts 553-664)                                        *)

ShapeSelector == {"rect", "path", "polygon", "circle", "ellipse", "polyline"}

\* a colour map keyed without toLowerCase(): what the join of rows and labels
\* must exclude
ColorMapGetCaseSensitive(dataPoints, labelKey) ==
    LET hits == {i \in 1..Len(dataPoints) :
                    /\ Truthy(dataPoints[i].color)
                    /\ Trim(dataPoints[i].fieldNumber) = labelKey}
    IN IF hits = {} THEN Undefined
       ELSE Str(Trim(dataPoints[CHOOSE i \in hits : \A j \in hits : j <= i].color.s))

\* colorMap.get(labelKey): the last data point with that key and a truthy color
ColorMapGet(dataPoints, labelKey) ==
    LET hits == {i \in 1..Len(dataPoints) :
                    /\ Truthy(dataPoints[i].color)
                    /\ LabelKey(dataPoints[i].fieldNumber) = labelKey}
    IN IF hits = {} THEN Undefined
       ELSE Str(Trim(dataPoints[CHOOSE i \in hits : \A j \in hits : j <= i].color.s))

\* polygonColorMap.get(labelKey): the last polygon with a truthy id and that
\* key; its value is String(p.color || "").trim()
PolygonColorMapGet(polygons, labelKey) ==
    LET hits == {i \in 1..Len(polygons) :
                    /\ polygons[i].id # <<>>
                    /\ LabelKey(polygons[i].id) = labelKey}
        last == CHOOSE i \in hits : \A j \in hits : j <= i
    IN IF hits = {} THEN Undefined
       ELSE IF Truthy(polygons[last].color)
            THEN Str(Trim(polygons[last].color.s))
            ELSE Str(<<>>)

\* a tooltip map that keeps the first row of a key: what the resolution of
\* duplicate label keys must exclude
TooltipMapGetFirst(dataPoints, labelKey) ==
    LET hits == {i \in 1..Len(dataPoints) :
                    /\ dataPoints[i].tooltip # Undefined
                    /\ LabelKey(dataPoints[i].fieldNumber) = labelKey}
    IN IF hits = {} THEN Null
       ELSE dataPoints[CHOOSE i \in hits : \A j \in hits : i <= j].tooltip

\* tooltipMap.get(labelKey) || null (553-558, 638): the tooltip of the last
\* data point with that key that has one
TooltipMapGet(dataPoints, labelKey) ==
    LET hits == {i \in 1..Len(dataPoints) :
                    /\ dataPoints[i].tooltip # Undefined
                    /\ LabelKey(dataPoints[i].fieldNumber) = labelKey}
    IN IF hits = {} THEN Null
       ELSE dataPoints[CHOOSE i \in hits : \A j \in hits : j <= i].tooltip

\* visual.ts 568-584: polygon colour, then data point colour, then default
ResolveColor(label, dataPoints, polygons, defaultColor) ==
    LET labelKey  == LabelKey(label)
        dpColor   == ColorMapGet(dataPoints, labelKey)
        polyColor == PolygonColorMapGet(polygons, labelKey)
    IN IF Truthy(polyColor) THEN polyColor.s
       ELSE IF Truthy(dpColor) THEN dpColor.s
       ELSE defaultColor

ShapeNode(tag, fill, fillOpacity, stroke, strokeWidth) ==
    [tag |-> tag, fill |-> fill, fillOpacity |-> fillOpacity, stroke |-> stroke,
     strokeWidth |-> strokeWidth, href |-> <<>>, id |-> <<>>]

\* an element as imported: no presentation attribute set
ImportedNode(tag) == ShapeNode(tag, Undefined, NoOpacity, Undefined, Undefined)

\* host.dom: the DOM mutation that throws in this environment, and the
\* labelled element (in document order) on which it does.  step is "none",
\* "fill" (setAttribute / style of fill and fill-opacity, 594-600), "stroke"
\* (617-624), "cursor" (630-631) or "listener" (addEventListener, 633-662).
NoFault == [step |-> "none", at |-> 0]
Fault(step, at) == [step |-> step, at |-> at]

\* visual.ts 592-626 on one descendant of the labelled element; step is the
\* mutation that throws on this element.  The fill and the stroke are each
\* set within a try of their own.
FillShape(step, node, color, polygonOpacity, highlightBorders) ==
    IF node.tag \notin ShapeSelector THEN node
    ELSE LET filled == IF step = "fill" THEN node
                       ELSE [node EXCEPT !.fill = Str(color),
                                         !.fillOpacity = polygonOpacity]
         IN IF step = "stroke" \/ ~highlightBorders THEN filled
            ELSE [filled EXCEPT
                    !.stroke = Str(IF color = <<>> THEN <<"#", "0", "0", "0">>
                                   ELSE color),
                    !.strokeWidth = IF @ = Undefined THEN Str(<<"1">>) ELSE @]

\* a labelled element of the surface: own is the element itself, color the
\* colour the binder resolved for it (Undefined when it was skipped), wired
\* whether the hover and click listeners were added.  What the listeners
\* captured: tip, the tooltip record the mouseenter listener shows (Undefined
\* while not wired), showTooltips, and found, the data point the click
\* listener finds.  opacity is style.opacity; hovered tells that the pointer
\* has entered the element and not left it.
LabeledNode(label, own, descendants, color, wired) ==
    [label |-> label, own |-> own, descendants |-> descendants,
     color |-> color, wired |-> wired, tip |-> Undefined,
     showTooltips |-> FALSE, found |-> Undefined, opacity |-> Undefined,
     hovered |-> FALSE]

\* document.importNode on a labelled element of the parsed markup
ImportLabeled(el) ==
    LabeledNode(el.label, ImportedNode(el.tag),
                [i \in 1..Len(el.descendants) |->
                    [ImportedNode(el.descendants[i]) EXCEPT !.href = el.hrefs[i]]],
                Undefined, FALSE)

\* the cursor style and the listeners of a labelled element are set outside
\* any try of the element's own (630-662)
Unguarded(step) == step \in {"cursor", "listener"}

\* dataPoints.find(d => String(d.fieldNumber ?? "").trim().toLowerCase() === labelKey)
\* (visual.ts 653): the first data point with that key, or undefined
FindDataPoint(dataPoints, labelKey) ==
    LET hits == {i \in 1..Len(dataPoints) :
                    LabelKey(dataPoints[i].fieldNumber) = labelKey}
    IN IF hits = {} THEN Undefined
       ELSE dataPoints[CHOOSE i \in hits : \A j \in hits : i <= j]

\* visual.ts 564-664 on one element of querySelectorAll("[data-label]"); step
\* is the mutation that throws on this element
BindLabeled(step, node, dataPoints, polygons, defaultColor, showTooltips, polygonOpacity, highlightBorders) ==
    LET Filled(color) ==
            [node EXCEPT
                !.descendants = [i \in 1..Len(@) |->
                    FillShape(step, @[i], color, polygonOpacity, highlightBorders)],
                !.color = Str(color)]
        Wired(filled, labelKey) ==
            [filled EXCEPT
                !.wired = TRUE,
                !.tip = TooltipMapGet(dataPoints, labelKey),
                !.showTooltips = showTooltips,
                !.found = FindDataPoint(dataPoints, labelKey)]
        Bound(filled) ==
            IF Unguarded(step) THEN filled ELSE Wired(filled, LabelKey(node.label))
    IN IF node.label = <<>> THEN node
       ELSE Bound(Filled(ResolveColor(node.label, dataPoints, polygons, defaultColor)))

\* visual.ts 602-615: the labelled elements whose shape loop reaches a use
\* element that refers to the element with this id.  The loop runs over
\* querySelectorAll(shapeSelector).
UseWriters(elements, id) ==
    {k \in 1..Len(elements) :
        /\ elements[k].label # <<>>
        /\ \E i \in 1..Len(elements[k].descendants) :
                LET shape == elements[k].descendants[i]
                IN /\ shape.tag \in ShapeSelector
                   /\ shape.tag = "use"
                   /\ shape.href # <<>>
                   /\ Head(shape.href) = "#"
                   /\ Tail(shape.href) = id}

\* the elements with an id after the binder: querySelector(href) finds the
\* first element with that id, and the last labelled element that refers to
\* it leaves its colour there
BindDefs(defs, elements, polygonOpacity) ==
    [d \in 1..Len(defs) |->
        LET writers == UseWriters(elements, defs[d].id)
            first   == \A h \in 1..(d - 1) : defs[h].id # defs[d].id
            last    == CHOOSE k \in writers : \A j \in writers : j <= k
        IN IF writers = {} \/ ~first THEN defs[d]
           ELSE [defs[d] EXCEPT !.fill = elements[last].color,
                                !.fillOpacity = polygonOpacity]]

----------------------------------------------------------------------------
(* renderSVG (visual.ts 466-705)                                           *)

\* defs are the elements of the svg that carry an id
SvgNode(responsive, elements, polygons) ==
    [tag |-> "svg", marker |-> "", responsive |-> responsive,
     elements |-> elements, polygons |-> polygons, defs |-> <<>>]

\* document.importNode(parsedSvg, true)
ImportSvg(parsed) ==
    [SvgNode(FALSE,
             [i \in 1..Len(parsed.elements) |-> ImportLabeled(parsed.elements[i])],
             [i \in 1..parsed.markers |-> MarkupPolygon])
        EXCEPT !.defs = [i \in 1..Len(parsed.defs) |->
                            [ImportedNode(parsed.defs[i].tag)
                                EXCEPT !.id = parsed.defs[i].id]]]

IsSvg(node) == node.tag = "svg"

\* the mutation that throws on the k-th labelled element
StepAt(k) == IF host.dom.at = k THEN host.dom.step ELSE "none"

\* the children of svgContainer after renderSVG, and what the data join did.
\* An exception that leaves the loop over the labelled elements is caught at
\* 666: the container is emptied and shows the error placeholder.
renderSVG(children, fs, svgContent, dataPoints, defaultColor, showTooltips, polygonOpacity, polygons) ==
    LET highlightBorders == IF fs = Undefined THEN FALSE ELSE fs.highlightBorders
        \* this.svgContainer.querySelector("svg")
        SvgIndexOf(imported) ==
            CHOOSE i \in 1..Len(imported) :
                IsSvg(imported[i]) /\ \A j \in 1..(i - 1) : ~IsSvg(imported[j])
        OverlayOf(svg) ==
            IF Len(polygons) > 0
            THEN renderPolygonsD3(svg.polygons, polygons, defaultColor,
                                  polygonOpacity, highlightBorders)
            ELSE [nodes |-> svg.polygons, join |-> NoJoin]
        Drawn(imported, svgIndex, overlay) ==
            [imported EXCEPT ![svgIndex].responsive = TRUE,
                             ![svgIndex].polygons = overlay.nodes]
        LabeledOf(drawn) ==
            [i \in 1..Len(drawn) |->
                IF IsSvg(drawn[i])
                THEN [drawn[i] EXCEPT !.elements = [k \in 1..Len(@) |->
                        BindLabeled(StepAt(k), @[k], dataPoints, polygons,
                                    defaultColor, showTooltips,
                                    polygonOpacity, highlightBorders)]]
                ELSE drawn[i]]
        BoundOf(labeled) ==
            [i \in 1..Len(labeled) |->
                IF IsSvg(labeled[i])
                THEN [labeled[i] EXCEPT !.defs =
                        BindDefs(@, labeled[i].elements, polygonOpacity)]
                ELSE labeled[i]]
        Threw(drawn) ==
            \E i \in 1..Len(drawn) :
                /\ IsSvg(drawn[i])
                /\ \E k \in 1..Len(drawn[i].elements) :
                        /\ drawn[i].elements[k].label # <<>>
                        /\ Unguarded(StepAt(k))
        \* the loop over the labelled elements and the catch at 666
        Finish(bound, threw, join) ==
            [children |-> IF threw
                          THEN Append(ClearContainer(bound), ErrorPlaceholder)
                          ELSE bound,
             join |-> join]
        Bind(drawn, join) == Finish(BoundOf(LabeledOf(drawn)), Threw(drawn), join)
        Overlaid(imported, svgIndex, overlay) ==
            Bind(Drawn(imported, svgIndex, overlay), overlay.join)
        Located(imported, svgIndex) ==
            Overlaid(imported, svgIndex, OverlayOf(imported[svgIndex]))
        Imported(imported) == Located(imported, SvgIndexOf(imported))
        Parsed(cleared, parsed) ==
            IF ~parsed.svg
            THEN [children |-> Append(ClearContainer(cleared), ErrorPlaceholder),
                  join |-> NoJoin]
            ELSE Imported(Append(cleared, ImportSvg(parsed)))
    IN IF svgContent = EmptyText
       THEN [children |-> Append(ClearContainer(children), NeutralPlaceholder),
             join |-> NoJoin]
       ELSE Parsed(ClearContainer(children), ParseSvg(svgContent))

----------------------------------------------------------------------------
(* Observation of a behaviour (hist).                                      *)
(*   render    which handler ran the last renderSVG: "none", "update" or   *)
(*             "upload"                                                    *)
(*   join      what the data join of that render did                       *)
(*   repeat    that render was a host update directly after a host update  *)
(*             render with the same SVG text and the same polygons         *)
(*   event     the last event delivered to the visual                      *)
(*   rendered  the handler of that event called renderSVG                  *)
(*   zoom      "in" or "out" when that event was a wheel event the handler *)
(*             acted on, else "none"                                       *)
(*   prevScale currentScale before that event                              *)
(*   run       consecutive accepted zoom-out wheel events since scale 1,   *)
(*             counted up to MaxRun                                        *)
(*   threw     the handler of that event let an exception escape           *)
(*   text      the SVG text of the last event that rendered                *)
(*   table     the table of the last host update that carried a snapshot   *)
(*   pointer   where the pointer was when that event was a mousedown or a  *)
(*             mousemove, else NoPoint                                     *)
(*   label     the data-label of the labelled element that event was       *)
(*             delivered to, else <<>>                                     *)
(*   selected  the selection ids that event's handler passed to select()   *)
(*   unhandled that event's handler left a rejected promise without a      *)
(*             rejection handler                                           *)
(*   anchor    the pointer position minus the translation at the last      *)
(*             mousedown that found zoom/pan enabled, or NoPoint when a    *)
(*             mouseup or mouseleave has followed it (or none happened)    *)

NoPoint == [t |-> "none"]
Point(x, y) == [t |-> "point", x |-> x, y |-> y]

Observe(render, join, repeat, event, rendered, zoom, run, threw) ==
    [render |-> render, join |-> join, repeat |-> repeat, event |-> event,
     rendered |-> rendered, zoom |-> zoom, prevScale |-> currentScale,
     run |-> run, threw |-> threw, text |-> hist.text, table |-> hist.table,
     pointer |-> NoPoint, anchor |-> hist.anchor, label |-> <<>>,
     selected |-> <<>>, unhandled |-> FALSE]

\* an event that renders nothing
ObserveEvent(event) ==
    Observe(hist.render, hist.join, hist.repeat, event, FALSE, "none", 0, FALSE)

----------------------------------------------------------------------------
(* Event handlers                                                          *)

Transform(x, y, scale) == [t |-> "transform", x |-> x, y |-> y, scale |-> scale]

\* the tooltip container: style.display, and the label and the tooltip record
\* its child nodes show (visual.ts 87-91, 755-786)
Tooltip(display, label, tip) == [display |-> display, label |-> label, tip |-> tip]

\* constructor (visual.ts 57-68, 70-165)
InitWith(hosts) ==
    /\ formattingSettings = Undefined
    /\ lastSvgContent = ""
    /\ lastDataPoints = <<>>
    /\ lastShowTooltips = TRUE
    /\ lastPolygons = <<>>
    /\ currentScale = One
    /\ currentTranslateX = 0
    /\ currentTranslateY = 0
    /\ isDragging = FALSE
    /\ startX = 0
    /\ startY = 0
    /\ transform = Undefined
    /\ cursor = ""
    /\ svgContainer = <<>>
    /\ pendingReads = <<>>
    /\ tooltipContainer = Tooltip("none", <<>>, Null)
    /\ host \in hosts
    /\ hist = [render |-> "none", join |-> NoJoin, repeat |-> FALSE,
               event |-> "init", rendered |-> FALSE, zoom |-> "none",
               prevScale |-> One, run |-> 0, threw |-> FALSE,
               text |-> EmptyText, table |-> Undefined,
               pointer |-> NoPoint, anchor |-> NoPoint, label |-> <<>>,
               selected |-> <<>>, unhandled |-> FALSE]

\* what update(options) assigns (visual.ts 221-261).  options.dataViews is
\* read without a guard at 224: an options object without dataViews throws
\* there, before anything is assigned.
UpdateAssigns(options) ==
    IF ~options.hasDataViews
    THEN /\ hist' = [ObserveEvent("update") EXCEPT !.threw = TRUE]
         /\ UNCHANGED <<formattingSettings, renderVars>>
    ELSE
    LET dataView == IF options.dataViews = <<>> THEN Undefined
                    ELSE options.dataViews[1]
        fs == PopulateFormattingSettingsModel(dataView)
    IN
    /\ formattingSettings' = fs
    /\ IF dataView = Undefined
       THEN /\ hist' = ObserveEvent("update")
            /\ UNCHANGED renderVars
       ELSE
       LET svgContent     == fs.svgContent
           showTooltips   == fs.showTooltips
           polygonOpacity == PolygonOpacity(fs)
           dataPoints     == parseDataView(host, dataView)
           polygons       == parsePolygonsFromDataView(host, dataView)
           drawn == renderSVG(svgContainer, fs, svgContent, dataPoints, DefaultColor,
                              showTooltips, polygonOpacity, polygons)
       IN /\ lastSvgContent' = svgContent
          /\ lastDataPoints' = dataPoints
          /\ lastShowTooltips' = showTooltips
          /\ lastPolygons' = polygons
          /\ svgContainer' = drawn.children
          /\ hist' = [Observe("update", drawn.join,
                              /\ hist.render = "update"
                              /\ lastSvgContent = svgContent
                              /\ lastPolygons = polygons,
                              "update", TRUE, "none", 0, FALSE)
                       EXCEPT !.text = svgContent, !.table = dataView.table]

\* an update that also resets the viewport: what the frame property of the
\* viewport must exclude
UpdateResettingViewport(options) ==
    /\ UpdateAssigns(options)
    /\ currentScale' = One
    /\ currentTranslateX' = 0
    /\ currentTranslateY' = 0
    /\ UNCHANGED <<isDragging, startX, startY, transform, cursor, pendingReads, host,
                   tooltipContainer>>

\* update(options): nothing else is assigned
Update(options) ==
    /\ UpdateAssigns(options)
    /\ UNCHANGED <<viewportVars, transform, cursor, pendingReads, host,
                   tooltipContainer>>

\* fileInput "change" (visual.ts 109-163): a FileReader starts reading the file
FileChange(text) ==
    /\ pendingReads' = Append(pendingReads, text)
    /\ hist' = ObserveEvent("change")
    /\ UNCHANGED <<formattingSettings, renderVars, viewportVars, transform, cursor,
                   host,
                   tooltipContainer>>

RemoveAt(q, i) == SubSeq(q, 1, i - 1) \o SubSeq(q, i + 1, Len(q))

\* a completion that renders without the collections of the last update:
\* what the ordering property of updates and uploads must exclude
ReaderOnloadStale(i) ==
    LET text == pendingReads[i]
        fs   == IF formattingSettings = Undefined THEN Undefined
                ELSE [formattingSettings EXCEPT !.svgContent = text]
        drawn == renderSVG(svgContainer, fs, text, <<>>, DefaultColor,
                           lastShowTooltips, PolygonOpacity(fs), <<>>)
    IN /\ pendingReads' = RemoveAt(pendingReads, i)
       /\ formattingSettings' = fs
       /\ lastSvgContent' = text
       /\ svgContainer' = drawn.children
       /\ hist' = [Observe("upload", drawn.join, FALSE, "upload", TRUE, "none", 0,
                           FALSE)
                    EXCEPT !.text = text]
       /\ UNCHANGED <<lastDataPoints, lastShowTooltips, lastPolygons, viewportVars,
                      transform, cursor, host,
                   tooltipContainer>>

\* reader.onload (visual.ts 114-158) of the i-th pending read
ReaderOnload(i) ==
    LET text == pendingReads[i]
        fs   == IF formattingSettings = Undefined THEN Undefined
                ELSE [formattingSettings EXCEPT !.svgContent = text]
        drawn == renderSVG(svgContainer, fs, text, lastDataPoints, DefaultColor,
                           lastShowTooltips, PolygonOpacity(fs), lastPolygons)
    IN /\ pendingReads' = RemoveAt(pendingReads, i)
       /\ formattingSettings' = fs
       /\ lastSvgContent' = text
       /\ svgContainer' = drawn.children
       /\ hist' = [Observe("upload", drawn.join, FALSE, "upload", TRUE, "none", 0,
                           FALSE)
                    EXCEPT !.text = text]
       /\ UNCHANGED <<lastDataPoints, lastShowTooltips, lastPolygons, viewportVars,
                      transform, cursor, host,
                   tooltipContainer>>

\* applyTransform() (visual.ts 216-219) on the values the handler has just set
applyTransform(x, y, scale) == Transform(x, y, scale)

\* a wheel scale without the upper clamp: what the scale range must exclude
WheelScaleUnclamped(scale, deltaY) ==
    LET delta == IF deltaY > 0 THEN ZoomOutFactor ELSE ZoomInFactor
    IN ScaleMax(Tenth, ScaleTimes(scale, delta))

\* a wheel scale with the two directions exchanged: what the zoom-out
\* arithmetic must exclude
WheelScaleExchanged(scale, deltaY) ==
    LET delta == IF deltaY > 0 THEN ZoomInFactor ELSE ZoomOutFactor
    IN ScaleMin(ScaleMax(Tenth, ScaleTimes(scale, delta)), Ten)

\* the scale the wheel handler stores (visual.ts 173-175)
WheelScale(scale, deltaY) ==
    LET delta == IF deltaY > 0 THEN ZoomOutFactor ELSE ZoomInFactor
    IN ScaleMin(ScaleMax(Tenth, ScaleTimes(scale, delta)), Ten)

\* "wheel" (visual.ts 169-177)
Wheel(deltaY) ==
    IF ~EnableZoomValue(formattingSettings)
    THEN /\ hist' = ObserveEvent("wheel")
         /\ UNCHANGED <<formattingSettings, renderVars, viewportVars, transform,
                        cursor, pendingReads, host,
                   tooltipContainer>>
    ELSE /\ currentScale' = WheelScale(currentScale, deltaY)
         /\ transform' = applyTransform(currentTranslateX, currentTranslateY,
                                        currentScale')
         /\ hist' = [ObserveEvent("wheel") EXCEPT
                        !.zoom = IF deltaY > 0 THEN "out" ELSE "in",
                        !.run  = IF deltaY > 0
                                 THEN IF currentScale = One THEN 1
                                      ELSE IF hist.run > 0
                                           THEN Min(hist.run + 1, MaxRun)
                                           ELSE 0
                                 ELSE 0]
         /\ UNCHANGED <<formattingSettings, renderVars, currentTranslateX,
                        currentTranslateY, isDragging, startX, startY, cursor,
                        pendingReads, host,
                   tooltipContainer>>

\* "mousedown" (visual.ts 180-187)
MouseDown(clientX, clientY) ==
    IF ~EnableZoomValue(formattingSettings)
    THEN /\ hist' = [ObserveEvent("mousedown") EXCEPT
                        !.pointer = Point(clientX, clientY)]
         /\ UNCHANGED <<formattingSettings, renderVars, viewportVars, transform,
                        cursor, pendingReads, host,
                   tooltipContainer>>
    ELSE /\ isDragging' = TRUE
         /\ startX' = clientX - currentTranslateX
         /\ startY' = clientY - currentTranslateY
         /\ cursor' = "grabbing"
         /\ hist' = [ObserveEvent("mousedown") EXCEPT
                        !.pointer = Point(clientX, clientY),
                        !.anchor  = Point(clientX - currentTranslateX,
                                          clientY - currentTranslateY)]
         /\ UNCHANGED <<formattingSettings, renderVars, currentScale,
                        currentTranslateX, currentTranslateY, transform,
                        pendingReads, host,
                   tooltipContainer>>

\* a mousemove handler without the isDragging guard: what the drag property
\* must exclude
MouseMoveUnguarded(clientX, clientY) ==
    /\ currentTranslateX' = clientX - startX
    /\ currentTranslateY' = clientY - startY
    /\ transform' = applyTransform(currentTranslateX', currentTranslateY',
                                   currentScale)
    /\ hist' = [ObserveEvent("mousemove") EXCEPT
                    !.pointer = Point(clientX, clientY)]
    /\ UNCHANGED <<formattingSettings, renderVars, currentScale, isDragging,
                   startX, startY, cursor, pendingReads, host,
                   tooltipContainer>>

\* "mousemove" (visual.ts 189-195)
MouseMove(clientX, clientY) ==
    IF ~isDragging
    THEN /\ hist' = [ObserveEvent("mousemove") EXCEPT
                        !.pointer = Point(clientX, clientY)]
         /\ UNCHANGED <<formattingSettings, renderVars, viewportVars, transform,
                        cursor, pendingReads, host,
                   tooltipContainer>>
    ELSE /\ currentTranslateX' = clientX - startX
         /\ currentTranslateY' = clientY - startY
         /\ transform' = applyTransform(currentTranslateX', currentTranslateY',
                                        currentScale)
         /\ hist' = [ObserveEvent("mousemove") EXCEPT
                        !.pointer = Point(clientX, clientY)]
         /\ UNCHANGED <<formattingSettings, renderVars, currentScale, isDragging,
                        startX, startY, cursor, pendingReads, host,
                   tooltipContainer>>

\* "mouseup" (visual.ts 197-200)
MouseUp ==
    /\ isDragging' = FALSE
    /\ cursor' = "default"
    /\ hist' = [ObserveEvent("mouseup") EXCEPT !.anchor = NoPoint]
    /\ UNCHANGED <<formattingSettings, renderVars, currentScale, currentTranslateX,
                   currentTranslateY, startX, startY, transform, pendingReads, host,
                   tooltipContainer>>

\* "mouseleave" (visual.ts 202-205)
MouseLeave ==
    /\ isDragging' = FALSE
    /\ cursor' = "default"
    /\ hist' = [ObserveEvent("mouseleave") EXCEPT !.anchor = NoPoint]
    /\ UNCHANGED <<formattingSettings, renderVars, currentScale, currentTranslateX,
                   currentTranslateY, startX, startY, transform, pendingReads, host,
                   tooltipContainer>>

\* a dblclick handler guarded like the wheel handler: what the reset property
\* must exclude
DblClickGuarded ==
    IF ~EnableZoomValue(formattingSettings)
    THEN /\ hist' = ObserveEvent("dblclick")
         /\ UNCHANGED <<formattingSettings, renderVars, viewportVars, transform,
                        cursor, pendingReads, host,
                   tooltipContainer>>
    ELSE /\ currentScale' = One
         /\ currentTranslateX' = 0
         /\ currentTranslateY' = 0
         /\ transform' = applyTransform(0, 0, One)
         /\ hist' = ObserveEvent("dblclick")
         /\ UNCHANGED <<formattingSettings, renderVars, isDragging, startX, startY,
                        cursor, pendingReads, host,
                   tooltipContainer>>

\* "dblclick" (visual.ts 208-213)
DblClick ==
    /\ currentScale' = One
    /\ currentTranslateX' = 0
    /\ currentTranslateY' = 0
    /\ transform' = applyTransform(0, 0, One)
    /\ hist' = ObserveEvent("dblclick")
    /\ UNCHANGED <<formattingSettings, renderVars, isDragging, startX, startY,
                   cursor, pendingReads, host,
                   tooltipContainer>>

\* this.svgContainer.querySelectorAll("[data-label]") (visual.ts 561): the
\* labelled elements of the first svg of the surface
SurfaceSvgIndex ==
    IF \E i \in 1..Len(svgContainer) : IsSvg(svgContainer[i])
    THEN CHOOSE i \in 1..Len(svgContainer) :
            IsSvg(svgContainer[i]) /\ \A j \in 1..(i - 1) : ~IsSvg(svgContainer[j])
    ELSE 0

SurfaceElements ==
    IF SurfaceSvgIndex = 0 THEN <<>> ELSE svgContainer[SurfaceSvgIndex].elements

\* showTooltip(label, tooltipData, element) (visual.ts 755-781)
showTooltip(label, tooltipData) == Tooltip("block", label, tooltipData)

\* hideTooltip() (visual.ts 783-785)
hideTooltip == [tooltipContainer EXCEPT !.display = "none"]

\* "mouseenter" on the k-th labelled element (visual.ts 633-640): the pointer
\* enters an element while it is over no other labelled element
ElementMouseEnter(k) ==
    /\ k \in 1..Len(SurfaceElements)
    /\ SurfaceElements[k].wired
    /\ \A h \in 1..Len(SurfaceElements) : ~SurfaceElements[h].hovered
    /\ svgContainer' = [svgContainer EXCEPT
                            ![SurfaceSvgIndex].elements[k].opacity = Str(<<"0", ".", "8">>),
                            ![SurfaceSvgIndex].elements[k].hovered = TRUE]
    /\ tooltipContainer' = IF SurfaceElements[k].showTooltips
                           THEN showTooltip(SurfaceElements[k].label,
                                            SurfaceElements[k].tip)
                           ELSE tooltipContainer
    /\ hist' = [ObserveEvent("mouseenter") EXCEPT !.label = SurfaceElements[k].label]
    /\ UNCHANGED <<formattingSettings, lastSvgContent, lastDataPoints,
                   lastShowTooltips, lastPolygons, viewportVars, transform, cursor,
                   pendingReads, host>>

\* "mouseleave" on the k-th labelled element (visual.ts 642-645): the pointer
\* leaves the element it is over
ElementMouseLeave(k) ==
    /\ k \in 1..Len(SurfaceElements)
    /\ SurfaceElements[k].wired
    /\ SurfaceElements[k].hovered
    /\ svgContainer' = [svgContainer EXCEPT
                            ![SurfaceSvgIndex].elements[k].opacity = Str(<<"1">>),
                            ![SurfaceSvgIndex].elements[k].hovered = FALSE]
    /\ tooltipContainer' = hideTooltip
    /\ hist' = [ObserveEvent("mouseleave") EXCEPT !.label = SurfaceElements[k].label]
    /\ UNCHANGED <<formattingSettings, lastSvgContent, lastDataPoints,
                   lastShowTooltips, lastPolygons, viewportVars, transform, cursor,
                   pendingReads, host>>

\* "click" on the k-th labelled element (visual.ts 648-662).  A select() that
\* throws is caught at 658; a select() that returns a promise which rejects
\* leaves the promise of .then(() => {}) rejected, and nothing handles that.
ElementClick(k) ==
    /\ k \in 1..Len(SurfaceElements)
    /\ SurfaceElements[k].wired
    /\ LET dp     == SurfaceElements[k].found
           called == dp # Undefined /\ ~IsNullish(dp.selectionId)
       IN hist' = [ObserveEvent("click") EXCEPT
                      !.label     = SurfaceElements[k].label,
                      !.selected  = IF called THEN <<dp.selectionId>> ELSE <<>>,
                      !.unhandled = called /\ host.select = "rejects"]
    /\ UNCHANGED <<formattingSettings, renderVars, viewportVars, transform, cursor,
                   pendingReads, host, tooltipContainer>>

----------------------------------------------------------------------------
(* Inputs and bounds                                                       *)

MaxRows         == 2    \* rows of a table
SurfaceRows     == 1    \* the same, in the specification that explores the surface
PanWheelSteps   == 2    \* the same, in the specification that explores panning
DecodeRows      == 2    \* the same, in the specification that explores the decoder
MaxReads        == 2    \* file reads in flight at once
MaxCoord        == 1    \* pointer coordinates are 0..MaxCoord
MaxPan          == 1    \* |currentTranslateX| <= MaxPan, |currentTranslateY| <= 2 MaxPan

\* a host whose selection manager resolves select(), in a DOM that throws
\* nowhere
HostOf(builder) == [builder |-> builder, select |-> "resolves", dom |-> NoFault]

TableHost == HostOf("table")

Column(roles, displayName, objects) ==
    [roles |-> roles, displayName |-> displayName, objects |-> objects]

Table(columns, rows) == [t |-> "table", columns |-> columns, rows |-> rows]

DataView(objects, table) ==
    [t |-> "dataView", objects |-> objects, table |-> table, categories |-> 0]

Options(dataViews) == [hasDataViews |-> TRUE, dataViews |-> dataViews]
NoDataViews == [hasDataViews |-> FALSE, dataViews |-> <<>>]

Red   == <<"r", "e", "d">>
Green == <<"g", "r", "e", "e", "n">>
Blue  == <<"b", "l", "u", "e">>

\* columns FieldNumber, LayerColor, Points
PlanColumns ==
    <<Column({"fieldNumber"}, Str(<<"F">>), Undefined),
      Column({"layerColor"}, Str(<<"C">>), Undefined),
      Column({"points"}, Str(<<"P">>), Undefined)>>

\* rows over PlanColumns: label key a with a colour and points; the same key
\* in another case, coloured only through the cell's formatting objects, with
\* points; label key b with a colour and no points
PlanRows ==
    {<<Str(<<"a">>), Str(Red), Str(<<"0", ",", "0", " ", "1", ",", "1">>)>>,
     <<Str(<<"A", " ">>), Obj(Undefined, FillSolid(Green)),
       Str(<<"2", ",", "2", " ", "3", ",", "3">>)>>,
     <<Str(<<"b">>), Str(Blue), Str(<<>>)>>}

PlanTables ==
    {Table(PlanColumns, rows) :
        rows \in UNION {[1..n -> PlanRows] : n \in 0..MaxRows}}

SvgTexts    == {EmptyText, MalformedText, PlanText, MarkedText}
UploadTexts == {EmptyText, NoSvgText, MarkedText}

PlanOptions ==
    {Options(<<DataView([svgContent |-> text], table)>>) :
        text \in SvgTexts, table \in PlanTables \cup {Undefined}}
    \cup {Options(<<>>)}

\* host updates over every kind of SVG text, with few rows
SurfaceOptions ==
    {Options(<<DataView([svgContent |-> text], Table(PlanColumns, rows))>>) :
        text \in SvgTexts \cup UploadTexts,
        rows \in UNION {[1..n -> PlanRows] : n \in 0..SurfaceRows}}
    \cup {Options(<<>>)}

\* a host per kind of selection-id builder
Hosts == {HostOf(b) : b \in {"absent", "table", "category", "throws"}}

Points1 == <<"0", ",", "0", " ", "1", ",", "1">>    \* "0,0 1,1"
Points2 == <<"2", ",", "2", " ", "3", ",", "3">>    \* "2,2 3,3"

\* rows of three cells.  The first cell is a label, absent, null or empty;
\* the last is a point string, bare or wrapped, or absent, null, empty or
\* blank
DecodeRowKinds ==
    {<<Str(<<"a">>), Str(Red), Str(Points1)>>,
     <<Str(<<" ", "A", " ">>), Str(Green), Obj(Str(Points2), Undefined)>>,
     <<Null, Str(Blue), Str(Points1)>>,
     <<Undefined, Str(Blue), Obj(Str(<<" ">>), Undefined)>>,
     <<Str(<<>>), Str(Red), Str(Points2)>>,
     <<Str(<<"b">>), Str(Blue), Str(<<" ">>)>>,
     <<Str(<<"B">>), Str(Green), Null>>,
     <<Obj(Str(<<"b">>), Undefined), Str(Red), Obj(Str(<<>>), Undefined)>>,
     <<Str(<<"b">>), Str(Red), Undefined>>}

\* column layouts over those cells: one column per role; no fieldNumber
\* column; two fieldNumber columns; two layerColor and two points columns
DecodeColumns ==
    {PlanColumns,
     <<Column({"tooltipFields"}, Str(<<"F">>), Undefined),
       Column({"layerColor"}, Str(<<"C">>), Undefined),
       Column({"points"}, Str(<<"P">>), Undefined)>>,
     <<Column({"fieldNumber"}, Str(<<"F">>), Undefined),
       Column({"fieldNumber", "layerColor"}, Str(<<"C">>), Undefined),
       Column({"points"}, Str(<<"P">>), Undefined)>>,
     <<Column({"fieldNumber", "layerColor"}, Str(<<"F">>), Undefined),
       Column({"layerColor", "polygonPoints"}, Str(<<"C">>), Undefined),
       Column({"points"}, Str(<<"P">>), Undefined)>>}

\* host updates for the decoder; the data view also has a category
DecodeOptions ==
    {Options(<<[DataView([svgContent |-> PlanText], Table(columns, rows))
                    EXCEPT !.categories = 1]>>) :
        columns \in DecodeColumns,
        rows \in UNION {[1..n -> DecodeRowKinds] : n \in 0..DecodeRows}}

\* host updates and uploaded texts for the interleaving of updates and reads
ReadOptions ==
    {Options(<<DataView([svgContent |-> text], Table(PlanColumns, rows))>>) :
        text \in {EmptyText, PlanText},
        rows \in UNION {[1..n -> PlanRows] : n \in 0..1}}
    \cup {Options(<<>>)}

ReadTexts == {NoSvgText, PlanText, MarkedText}

\* host updates that differ in the zoom/pan setting only
ViewOptions ==
    {Options(<<DataView([enableZoom |-> z], Undefined)>>) : z \in BOOLEAN}
    \cup {Options(<<>>), NoDataViews}

\* transparencyPercent texts: "150", "abc", "-5", "", "12.5", "0", "100", " 7 "
PercentTexts ==
    {<<"1", "5", "0">>, <<"a", "b", "c">>, <<"-", "5">>, <<>>,
     <<"1", "2", ".", "5">>, <<"0">>, <<"1", "0", "0">>, <<" ", "7", " ">>}

\* one row with a colour and points
OpacityTable ==
    Table(PlanColumns,
          <<<<Str(<<"a">>), Str(Red), Str(<<"0", ",", "0", " ", "1", ",", "1">>)>>>>)

\* host updates that differ in the transparency settings
OpacityOptions ==
    {Options(<<DataView([svgContent |-> text, enableTransparency |-> e,
                         transparencyPercent |-> Str(p)], OpacityTable)>>) :
        text \in {PlanText, MarkedText}, e \in BOOLEAN, p \in PercentTexts}
    \cup {Options(<<>>)}

BindRows == 2    \* rows of a table, in the specification that explores the binder

\* rows of four cells: label, colour, tooltip value, point string.  Label
\* keys a and b in several spellings; a colour or none; a tooltip value
\* bare, wrapped, wrapped null, null or absent
BindRowKinds ==
    {<<Str(<<"a">>), Str(Red), Str(<<"x">>), Str(Points1)>>,
     <<Str(<<"A", " ">>), Str(<<>>), Null, Str(<<>>)>>,
     <<Str(<<" ", "a">>), Str(Green), Obj(Null, Undefined), Null>>,
     <<Str(<<"b">>), Str(Blue), Obj(Str(<<" ", "y", " ">>), Undefined), Str(Points2)>>,
     <<Str(<<"B">>), Undefined, Undefined, Undefined>>,
     <<Str(<<>>), Str(Red), Str(<<"z">>), Null>>}

\* column layouts over those cells: one tooltip column; the colour column a
\* tooltip column too, and the other tooltip column without a display name
BindColumns ==
    {<<Column({"fieldNumber"}, Str(<<"F">>), Undefined),
       Column({"layerColor"}, Str(<<"C">>), Undefined),
       Column({"tooltipFields"}, Str(<<"T">>), Undefined),
       Column({"points"}, Str(<<"P">>), Undefined)>>,
     <<Column({"fieldNumber"}, Str(<<"F">>), Undefined),
       Column({"layerColor", "tooltipFields"}, Str(<<"C">>), Undefined),
       Column({"tooltipFields"}, Str(<<>>), Undefined),
       Column({"points"}, Str(<<"P">>), Undefined)>>}

\* host updates for the binder
BindOptions ==
    {Options(<<DataView([svgContent |-> text, highlightBorders |-> h],
                        Table(columns, rows))>>) :
        text \in {PlanText, UseText}, h \in BOOLEAN, columns \in BindColumns,
        rows \in UNION {[1..n -> BindRowKinds] : n \in 0..BindRows}}

\* a host with a table builder, in a DOM where one mutation throws on one
\* labelled element, or none does
BindHosts ==
    {[HostOf("table") EXCEPT !.dom = f] :
        f \in {NoFault, Fault("fill", 1), Fault("stroke", 1), Fault("cursor", 1),
               Fault("listener", 2)}}

HoverRows == 1    \* rows of a table, in the specification that explores the pointer

\* rows with the label key a, and a tooltip value or none
HoverRowKinds ==
    {<<Str(<<"a">>), Str(Red), Str(<<"x">>), Str(Points1)>>,
     <<Str(<<"A", " ">>), Str(<<>>), Null, Str(<<>>)>>}

\* host updates with tooltips shown or not
HoverOptions ==
    {Options(<<DataView([svgContent |-> PlanText, showTooltips |-> show],
                        Table(PlanColumns \o <<Column({"tooltipFields"}, Str(<<"T">>),
                                                       Undefined)>>,
                              rows))>>) :
        show \in BOOLEAN,
        rows \in UNION {[1..n -> HoverRowKinds] : n \in 0..HoverRows}}
    \cup {Options(<<DataView([svgContent |-> EmptyText], Undefined)>>)}

\* hosts with a table builder whose select() resolves, throws or returns a
\* promise that rejects, and a host without a builder
HoverHosts ==
    {[HostOf("table") EXCEPT !.select = outcome] :
        outcome \in {"resolves", "throws", "rejects"}}
    \cup {HostOf("absent")}

WheelDeltas == {-1, 0, 1}
ZoomPositions == {<<0, 0>>}
\* the pointer moves along the line y = 2x
PanPositions == {<<c, 2 * c>> : c \in 0..MaxCoord}

WheelSteps(scale) == scale.n9 + scale.n11

Abs(n) == IF n < 0 THEN 0 - n ELSE n

\* the pointer stays where the drag keeps the translation within MaxPan
PanWithin(pos) ==
    isDragging => /\ Abs(pos[1] - startX) <= MaxPan
                  /\ Abs(pos[2] - startY) <= 2 * MaxPan

----------------------------------------------------------------------------
(* Specifications                                                          *)

Init == InitWith({TableHost})

\* host updates and uploads, one file read at a time
Next ==
    \/ \E options \in PlanOptions : Update(options)
    \/ \E text \in UploadTexts : pendingReads = <<>> /\ FileChange(text)
    \/ \E i \in 1..Len(pendingReads) : ReaderOnload(i)

Spec == Init /\ [][Next]_vars

\* every viewport handler and host updates, the pointer at one place:
\* explores the scale
ZoomNext ==
    \/ \E options \in ViewOptions : Update(options)
    \/ \E deltaY \in WheelDeltas :
            WheelSteps(currentScale) < MaxWheelSteps /\ Wheel(deltaY)
    \/ \E pos \in ZoomPositions : MouseDown(pos[1], pos[2])
    \/ \E pos \in ZoomPositions : MouseMove(pos[1], pos[2])
    \/ MouseUp
    \/ MouseLeave
    \/ DblClick

SpecZoom == Init /\ [][ZoomNext]_vars

\* every handler, few wheel steps: explores the translation
PanNext ==
    \/ \E options \in ViewOptions : Update(options)
    \/ pendingReads = <<>> /\ FileChange(MarkedText)
    \/ \E i \in 1..Len(pendingReads) : ReaderOnload(i)
    \/ \E deltaY \in WheelDeltas :
            WheelSteps(currentScale) < PanWheelSteps /\ Wheel(deltaY)
    \/ \E pos \in PanPositions : MouseDown(pos[1], pos[2])
    \/ \E pos \in PanPositions : PanWithin(pos) /\ MouseMove(pos[1], pos[2])
    \/ MouseUp
    \/ MouseLeave
    \/ DblClick

SpecPan == Init /\ [][PanNext]_vars

\* host updates and uploads over every kind of SVG text: explores what
\* follows what on the surface
SurfaceNext ==
    \/ \E options \in SurfaceOptions : Update(options)
    \/ \E text \in SvgTexts \cup UploadTexts : pendingReads = <<>> /\ FileChange(text)
    \/ \E i \in 1..Len(pendingReads) : ReaderOnload(i)

SpecSurface == Init /\ [][SurfaceNext]_vars

\* the first host update decoded by every kind of host, then an upload
DecodeInit == InitWith(Hosts)

DecodeNext ==
    \/ \E options \in DecodeOptions : hist.render = "none" /\ Update(options)
    \/ hist.render = "update" /\ pendingReads = <<>> /\ FileChange(MarkedText)
    \/ \E i \in 1..Len(pendingReads) : ReaderOnload(i)

SpecDecode == DecodeInit /\ [][DecodeNext]_vars

\* host updates while up to MaxReads file reads are in flight; the reads
\* complete in any order
ReadsNext ==
    \/ \E options \in ReadOptions : Update(options)
    \/ \E text \in ReadTexts : Len(pendingReads) < MaxReads /\ FileChange(text)
    \/ \E i \in 1..Len(pendingReads) : ReaderOnload(i)

SpecReads == Init /\ [][ReadsNext]_vars

\* host updates over the transparency settings, and uploads
OpacityNext ==
    \/ \E options \in OpacityOptions : Update(options)
    \/ \E text \in {PlanText, MarkedText} : pendingReads = <<>> /\ FileChange(text)
    \/ \E i \in 1..Len(pendingReads) : ReaderOnload(i)

SpecOpacity == Init /\ [][OpacityNext]_vars

\* the first host update bound in every kind of DOM, then an upload
BindInit == InitWith(BindHosts)

BindNext ==
    \/ \E options \in BindOptions : hist.render = "none" /\ Update(options)
    \/ hist.render = "update" /\ pendingReads = <<>> /\ FileChange(UseText)
    \/ \E i \in 1..Len(pendingReads) : ReaderOnload(i)

SpecBind == BindInit /\ [][BindNext]_vars

\* host updates and uploads while the pointer enters, leaves and clicks the
\* labelled elements
HoverInit == InitWith(HoverHosts)

HoverNext ==
    \/ \E options \in HoverOptions : Update(options)
    \/ pendingReads = <<>> /\ FileChange(UseText)
    \/ \E i \in 1..Len(pendingReads) : ReaderOnload(i)
    \/ \E k \in 1..2 : ElementMouseEnter(k)
    \/ \E k \in 1..2 : ElementMouseLeave(k)
    \/ \E k \in 1..2 : ElementClick(k)

SpecHover == HoverInit /\ [][HoverNext]_vars

----------------------------------------------------------------------------
(* Properties of the overlay and of the label binder (under Spec) and of   *)
(* the surface (under SpecSurface)                                         *)

\* the svg elements of the surface
SurfaceSvgs == {i \in 1..Len(svgContainer) : IsSvg(svgContainer[i])}

\* the keys of the overlay polygons on the surface
OverlayKeys ==
    UNION {{PolygonKey(svgContainer[i].polygons[k].datum) :
                k \in {h \in 1..Len(svgContainer[i].polygons) :
                          svgContainer[i].polygons[h].origin = "overlay"}} :
           i \in SurfaceSvgs}

DistinctKeys(polygons) ==
    \A i, j \in 1..Len(polygons) :
        PolygonKey(polygons[i]) = PolygonKey(polygons[j]) => i = j

KeysOf(polygons) == [i \in 1..Len(polygons) |-> PolygonKey(polygons[i])]

\* C1: when a host update renders the same SVG text and the same polygons
\* (distinct keys) as the host update before it, the data join of the second
\* render enters nothing and exits nothing, and updates every polygon key.
C1_RepeatedUpdateOnlyUpdates ==
    (hist.repeat /\ hist.join.ran /\ DistinctKeys(lastPolygons)) =>
        /\ hist.join.enter = <<>>
        /\ hist.join.exit = <<>>
        /\ hist.join.update = KeysOf(lastPolygons)

\* C2: when the surface shows the overlay of the one-polygon collection
\* [{id A}] and a host update renders [{id B}], A # B, the data join exits
\* exactly the shape keyed A, enters exactly a shape keyed B and updates none.
C2_ReplacedKeyExitsAndEnters ==
    [][(/\ hist'.event = "update"
        /\ hist'.join.ran
        /\ Len(lastPolygons) = 1
        /\ OverlayKeys = {PolygonKey(lastPolygons[1])}
        /\ Len(lastPolygons') = 1
        /\ PolygonKey(lastPolygons'[1]) # PolygonKey(lastPolygons[1]))
       => /\ hist'.join.exit = KeysOf(lastPolygons)
          /\ hist'.join.enter = KeysOf(lastPolygons')
          /\ hist'.join.update = <<>>]_vars

\* the non-empty colours of the polygons / data points with a label key
PolygonColorsOf(labelKey) ==
    {Trim(lastPolygons[i].color.s) :
        i \in {h \in 1..Len(lastPolygons) :
                  /\ LabelKey(lastPolygons[h].id) = labelKey
                  /\ Truthy(lastPolygons[h].color)}}

DataPointColorsOf(labelKey) ==
    {Trim(lastDataPoints[i].color.s) :
        i \in {h \in 1..Len(lastDataPoints) :
                  /\ LabelKey(lastDataPoints[h].fieldNumber) = labelKey
                  /\ Truthy(lastDataPoints[h].color)}}

\* C3: the colour resolved for a labelled element is a colour of a polygon
\* with the element's label key if one of them has a non-empty colour, else
\* a colour of a data point with that key if one of them has a non-empty
\* colour, else the default colour.
C3_ColorPriority ==
    \A i \in SurfaceSvgs : \A k \in 1..Len(svgContainer[i].elements) :
        LET el       == svgContainer[i].elements[k]
            labelKey == LabelKey(el.label)
        IN el.color # Undefined =>
            IF PolygonColorsOf(labelKey) # {}
            THEN el.color.s \in PolygonColorsOf(labelKey)
            ELSE IF DataPointColorsOf(labelKey) # {}
                 THEN el.color.s \in DataPointColorsOf(labelKey)
                 ELSE el.color.s = DefaultColor

\* C9: after a render with empty SVG text the surface holds the neutral
\* placeholder and nothing else, whatever was on it and whatever the data
\* points and polygons are.
C9_EmptyTextShowsNeutralPlaceholder ==
    (hist.render # "none" /\ lastSvgContent = EmptyText) =>
        svgContainer = <<NeutralPlaceholder>>

\* an empty text rendered while data points and polygons are bound
C9_Witness ==
    /\ hist.render # "none"
    /\ lastSvgContent = EmptyText
    /\ Len(lastPolygons) > 0
    /\ Len(lastDataPoints) > 0
    /\ svgContainer = <<NeutralPlaceholder>>

\* C10: after a render with a non-empty SVG text whose parsed document has
\* no svg element the surface holds the error placeholder and nothing else:
\* no node of an earlier render is left.
C10_UnparsedTextShowsErrorPlaceholder ==
    (/\ hist.render # "none"
     /\ lastSvgContent # EmptyText
     /\ ~ParseSvg(lastSvgContent).svg) =>
        svgContainer = <<ErrorPlaceholder>>

\* a well-formed text without an svg element, uploaded while polygons and
\* data points are bound
C10_Witness ==
    /\ hist.event = "upload"
    /\ lastSvgContent = NoSvgText
    /\ Len(lastPolygons) > 0
    /\ Len(lastDataPoints) > 0
    /\ svgContainer = <<ErrorPlaceholder>>

----------------------------------------------------------------------------
(* Properties of the viewport (under SpecZoom and SpecPan)                 *)

NineTenths   == Scale(1, 0, -1)    \* 0.9 = 9 / 10
ElevenTenths == Scale(0, 1, -1)    \* 1.1 = 11 / 10

RECURSIVE ScalePower(_, _)
ScalePower(x, n) == IF n = 0 THEN One ELSE ScaleTimes(x, ScalePower(x, n - 1))

\* C4: in every reachable state 0.1 <= currentScale <= 10.
C4_ScaleInRange ==
    /\ ~ScaleLess(currentScale, Tenth)
    /\ ~ScaleLess(Ten, currentScale)

\* a zoom-in from below 10 that the clamp cut to 10
C4_Witness ==
    /\ hist.zoom = "in"
    /\ ScaleLess(hist.prevScale, Ten)
    /\ ScaleLess(Ten, ScaleTimes(hist.prevScale, ElevenTenths))
    /\ currentScale = Ten

\* C5: after five consecutive zoom-out wheel events from scale 1 the scale is
\* max(0.1, 0.9^5); and a zoom-in wheel event that would take the scale above
\* 10, from 10 itself included, leaves it at exactly 10.
C5_ZoomArithmetic ==
    /\ hist.run = 5 => currentScale = ScaleMax(Tenth, ScalePower(NineTenths, 5))
    /\ (/\ hist.zoom = "in"
        /\ ScaleLess(Ten, ScaleTimes(hist.prevScale, ElevenTenths)))
       => currentScale = Ten

\* the fifth zoom-out in a row from scale 1
C5_Witness ==
    /\ hist.run = 5
    /\ hist.zoom = "out"
    /\ currentScale = Scale(5, 0, -5)

\* C6: a double-click leaves scale 1 and translation (0, 0), also while a
\* drag is in progress and while the zoom/pan setting is off or no settings
\* have arrived.
C6_DoubleClickResets ==
    hist.event = "dblclick" =>
        /\ currentScale = One
        /\ currentTranslateX = 0
        /\ currentTranslateY = 0

\* a double-click during a drag, with zoom/pan off, on a zoomed viewport
C6_Witness ==
    /\ hist.event = "dblclick"
    /\ isDragging
    /\ ~EnableZoomValue(formattingSettings)
    /\ hist.prevScale # One
    /\ currentScale = One

\* C7: a host update and the completion of an upload leave the scale, the
\* translation, the dragging flag and the drag anchor as they were; a step
\* that changes one of them is a wheel, pointer or double-click event.
C7_ViewportFrame ==
    [][/\ hist'.event \in {"update", "upload"} => UNCHANGED viewportVars
       /\ viewportVars' # viewportVars =>
            hist'.event \in {"wheel", "mousedown", "mousemove", "mouseup",
                             "mouseleave", "dblclick"}]_vars

\* an upload completed during a drag on a zoomed and panned viewport
C7_Witness ==
    /\ hist.event = "upload"
    /\ isDragging
    /\ currentScale # One
    /\ currentTranslateX # 0

----------------------------------------------------------------------------
(* Properties of the opacity (under SpecOpacity)                           *)

\* the opacity, in thousandths, for a transparencyPercent text
ExpectedOpacity(text) ==
    CASE text = <<"1", "5", "0">> -> 1000
      [] text = <<"a", "b", "c">> -> 400
      [] text = <<"-", "5">>      -> 0
      [] OTHER -> IF ToNumber(text).nan THEN 400
                  ELSE IF ToNumber(text).tenths < 0 THEN 0
                  ELSE IF ToNumber(text).tenths > 1000 THEN 1000
                  ELSE ToNumber(text).tenths

\* the fill-opacity values the last render put on the surface
SurfaceOpacities ==
    UNION {{svgContainer[i].polygons[k].fillOpacity :
                k \in {h \in 1..Len(svgContainer[i].polygons) :
                          svgContainer[i].polygons[h].origin = "overlay"}}
           \cup UNION {{svgContainer[i].elements[k].descendants[d].fillOpacity :
                            d \in {h \in 1..Len(svgContainer[i].elements[k].descendants) :
                                      svgContainer[i].elements[k].descendants[h].tag
                                          \in ShapeSelector}} :
                       k \in {h \in 1..Len(svgContainer[i].elements) :
                                 svgContainer[i].elements[h].color # Undefined}} :
           i \in SurfaceSvgs}

\* C8: with transparency enabled every shape a render fills gets the opacity
\* of the transparencyPercent text: 1.0 for "150", 0.4 for "abc", 0 for "-5";
\* 0.4 for a text that is not a number, else the number clamped to [0, 100]
\* and divided by 100.
C8_OpacityFromPercent ==
    (/\ hist.rendered
     /\ formattingSettings # Undefined
     /\ formattingSettings.enableTransparency) =>
        \A o \in SurfaceOpacities :
            o = ExpectedOpacity(formattingSettings.transparencyPercent.s)

\* a render with "150" that filled an overlay polygon and a labelled shape
C8_Witness ==
    /\ hist.rendered
    /\ formattingSettings # Undefined
    /\ formattingSettings.enableTransparency
    /\ formattingSettings.transparencyPercent = Str(<<"1", "5", "0">>)
    /\ SurfaceOpacities = {1000}
    /\ \E i \in SurfaceSvgs :
          /\ Len(svgContainer[i].polygons) > 0
          /\ \E k \in 1..Len(svgContainer[i].elements) :
                svgContainer[i].elements[k].color # Undefined

----------------------------------------------------------------------------
(* Properties of the decoder (under SpecDecode)                            *)

\* C11: every PolygonVM of the collection has a point string that is not
\* blank: a row whose point cell is absent, null, empty or blank after
\* trimming yields none.
C11_NoBlankPoints ==
    \A i \in 1..Len(lastPolygons) : Trim(lastPolygons[i].points) # <<>>

\* the columns of the last table that carry a role
ColumnsOf(role) ==
    IF hist.table = Undefined THEN {}
    ELSE {i \in 1..Len(hist.table.columns) : role \in hist.table.columns[i].roles}

\* the text of a cell: of its value when the cell is a wrapper
CellText(cell) ==
    CASE cell.t = "string" -> cell.s
      [] cell.t = "object" /\ cell.value.t = "string" -> cell.value.s
      [] OTHER -> <<>>

NonEmpty(s) == s # <<>>

\* the trimmed label keys of the rows of the last table, in row order,
\* without the empty ones
RowKeys ==
    LET i == CHOOSE c \in ColumnsOf("fieldNumber") : TRUE
    IN SelectSeq([k \in 1..Len(hist.table.rows) |->
                      Trim(CellText(Cell(hist.table.rows[k], i)))],
                 NonEmpty)

\* the labelled elements of the surface that the binder coloured
BoundElements ==
    UNION {{svgContainer[i].elements[k] :
                k \in {h \in 1..Len(svgContainer[i].elements) :
                          svgContainer[i].elements[h].color # Undefined}} :
           i \in SurfaceSvgs}

C13_LabelledShapeFilled ==
    \A el \in BoundElements :
        (/\ el.own.tag \in ShapeSelector
         /\ \E i \in 1..Len(lastDataPoints) :
                LabelKey(lastDataPoints[i].fieldNumber) = LabelKey(el.label))
        => el.own.fill = el.color

----------------------------------------------------------------------------
(* Properties of the handlers' robustness and ordering                     *)

\* C14: a host update without a snapshot list, with an empty one or with a
\* snapshot without a table lets no exception escape, and leaves the surface
\* as it was or showing a placeholder.
C14_UpdateWithoutDataIsSafe ==
    [][(/\ hist'.event = "update"
        /\ hist'.table = Undefined)
       => /\ ~hist'.threw
          /\ \/ svgContainer' = svgContainer
             \/ svgContainer' \in {<<NeutralPlaceholder>>, <<ErrorPlaceholder>>}]_vars

\* a collection without its selection ids
WithoutSelectionIds(items) ==
    [i \in 1..Len(items) |-> [items[i] EXCEPT !.selectionId = Undefined]]

\* the last decoded snapshot: its table, with one category
LastDataView == [DataView(<<>>, hist.table) EXCEPT !.categories = 1]

\* C15: when the host has no selection-id builder, or a builder step throws,
\* every row is decoded as with a working builder, only without selection
\* id, and no exception escapes; a builder with a table method identifies the
\* rows by the table although a category exists.
C15_SelectionIdNeverBlocksDecoding ==
    hist.table # Undefined =>
        /\ ~hist.threw
        /\ WithoutSelectionIds(lastDataPoints)
              = WithoutSelectionIds(parseDataView([builder |-> "table"], LastDataView))
        /\ WithoutSelectionIds(lastPolygons)
              = WithoutSelectionIds(
                    parsePolygonsFromDataView([builder |-> "table"], LastDataView))
        /\ host.builder \in {"absent", "throws"} =>
              /\ \A i \in 1..Len(lastDataPoints) :
                    lastDataPoints[i].selectionId = Undefined
              /\ \A i \in 1..Len(lastPolygons) :
                    lastPolygons[i].selectionId = Undefined
        /\ host.builder = "table" =>
              /\ \A i \in 1..Len(lastDataPoints) :
                    /\ lastDataPoints[i].selectionId # Undefined
                    /\ lastDataPoints[i].selectionId.via = "table"
              /\ \A i \in 1..Len(lastPolygons) :
                    /\ lastPolygons[i].selectionId # Undefined
                    /\ lastPolygons[i].selectionId.via = "table"

\* a throwing builder, and two rows decoded into data points and polygons
C15_Witness ==
    /\ host.builder = "throws"
    /\ Len(lastDataPoints) = 2
    /\ Len(lastPolygons) = 2
    /\ \A i \in 1..2 : /\ lastDataPoints[i].selectionId = Undefined
                       /\ lastPolygons[i].selectionId = Undefined

IsMarkupPolygon(node) == node.origin = "markup"

\* C16: the overlay join changes and removes no element of the imported
\* markup: the polygon.data-polygon elements that came with the markup are
\* on the surface as they were imported.
C16_OverlayLeavesMarkupAlone ==
    \A i \in SurfaceSvgs :
        SelectSeq(svgContainer[i].polygons, IsMarkupPolygon)
            = [k \in 1..ParseSvg(lastSvgContent).markers |-> MarkupPolygon]

\* the join ran over markup that has a polygon.data-polygon element
C16_Witness ==
    /\ hist.join.ran
    /\ Len(lastPolygons) > 0
    /\ ParseSvg(lastSvgContent).markers > 0
    /\ \E i \in SurfaceSvgs : \E k \in 1..Len(svgContainer[i].polygons) :
          svgContainer[i].polygons[k] = MarkupPolygon

\* the surface a render of the last rendered text and the last table gives
LatestSurface ==
    renderSVG(<<>>, Undefined, hist.text,
              parseDataView(host, DataView(<<>>, hist.table)),
              DefaultColor, TRUE, PolygonOpacity(DefaultSettings),
              parsePolygonsFromDataView(host, DataView(<<>>, hist.table))).children

\* C17: after any interleaving of host updates and completions of file reads
\* the surface is the render of the text of the latest of them that rendered
\* with the data points and polygons of the latest host update that carried a
\* snapshot (none before the first).
C17_LatestEventWins ==
    hist.render # "none" => svgContainer = LatestSurface

\* a read completed while another is in flight, drawn with the polygons of
\* the last host update
C17_Witness ==
    /\ hist.event = "upload"
    /\ pendingReads # <<>>
    /\ Len(lastDataPoints) > 0
    /\ OverlayKeys # {}
    /\ svgContainer = LatestSurface

\* the first column of the last table that carries one of the roles
FirstColumn(roles) ==
    LET hits == UNION {ColumnsOf(r) : r \in roles}
    IN CHOOSE i \in hits : \A j \in hits : i <= j

HasColumn(roles) == UNION {ColumnsOf(r) : r \in roles} # {}

\* C18: when several columns carry the same role the decoders read the first
\* of them: the data points carry the label keys of the first fieldNumber
\* column, and every polygon carries a point string of the first points
\* column, a colour of the first colour column (or none) and an id of the
\* first fieldNumber column (or a synthetic one).
C18_FirstColumnOfRole ==
    /\ HasColumn({"fieldNumber"}) =>
          SelectSeq([k \in 1..Len(hist.table.rows) |->
                        Trim(CellText(Cell(hist.table.rows[k],
                                           FirstColumn({"fieldNumber"}))))],
                    NonEmpty)
            = [i \in 1..Len(lastDataPoints) |-> lastDataPoints[i].fieldNumber]
    /\ \A i \in 1..Len(lastPolygons) :
          /\ \E k \in 1..Len(hist.table.rows) :
                lastPolygons[i].points
                    = CellText(Cell(hist.table.rows[k],
                                    FirstColumn({"points", "polygonPoints"})))
          /\ lastPolygons[i].color # Null =>
                \E k \in 1..Len(hist.table.rows) :
                    lastPolygons[i].color.s
                        = Trim(CellText(Cell(hist.table.rows[k],
                                             FirstColumn({"layerColor", "color"}))))

\* C19: with at most one fieldNumber column, a polygon built from row i has
\* the id "p" followed by i when there is no fieldNumber column or the row's
\* fieldNumber cell is absent, null or empty; otherwise its id is the row's
\* label key.  (The row of a polygon is read off its table selection id.)
C19_PolygonIdentity ==
    (host.builder = "table" /\ Cardinality(ColumnsOf("fieldNumber")) <= 1) =>
        \A i \in 1..Len(lastPolygons) :
            LET idx  == lastPolygons[i].selectionId.row
                row  == hist.table.rows[idx + 1]
                text == IF HasColumn({"fieldNumber"})
                        THEN CellText(Cell(row, FirstColumn({"fieldNumber"})))
                        ELSE <<>>
            IN IF text = <<>>
               THEN lastPolygons[i].id = <<"p">> \o DecimalChars(idx)
               ELSE LabelKey(lastPolygons[i].id) = LabelKey(text)

\* C20: after a double-click received while dragging the viewport controller
\* is idle: a pointer-move that directly follows the double-click, with no
\* pointer-down in between, leaves the translation at (0,0).
C20_DoubleClickEndsDrag ==
    [][(hist.event = "dblclick" /\ hist'.event = "mousemove") =>
            (currentTranslateX' = 0 /\ currentTranslateY' = 0)]_vars

----------------------------------------------------------------------------
(* Properties of the drag controller and of the zoom/pan guard (under      *)
(* SpecPan)                                                                *)

\* C21: a pointer-move sets the translation exactly when a pointer-down
\* accepted with zoom/pan enabled has not yet been followed by a pointer-up
\* or pointer-leave: it then sets the translation to the pointer position
\* minus the anchor recorded at that pointer-down (pointer-down position minus
\* the translation at that moment) and changes nothing else of the viewport;
\* in every other case it leaves the viewport state and the transform
\* unchanged.
C21_PointerMoveFollowsAnchor ==
    [][hist'.event = "mousemove" =>
            IF hist.anchor # NoPoint
            THEN /\ currentTranslateX' = hist'.pointer.x - hist.anchor.x
                 /\ currentTranslateY' = hist'.pointer.y - hist.anchor.y
                 /\ transform' = Transform(currentTranslateX', currentTranslateY',
                                           currentScale)
                 /\ UNCHANGED <<currentScale, isDragging, startX, startY>>
            ELSE UNCHANGED <<viewportVars, transform>>]_vars

\* a pointer-move has dragged the surface away from (0,0)
C21_Witness ==
    /\ hist.event = "mousemove"
    /\ hist.anchor # NoPoint
    /\ currentTranslateX # 0
    /\ currentTranslateX = hist.pointer.x - hist.anchor.x

\* zoom/pan is disabled, or no host update has supplied settings yet
ZoomPanOff ==
    \/ formattingSettings = Undefined
    \/ formattingSettings.enableZoom = FALSE

\* C22: while the zoom/pan setting is disabled, or before any host update has
\* supplied settings, a wheel event leaves the scale unchanged and a
\* pointer-down does not enter the dragging state or change the anchor.
C22_DisabledZoomPanIgnoresInput ==
    [][(ZoomPanOff /\ hist'.event \in {"wheel", "mousedown"}) =>
            UNCHANGED <<currentScale, isDragging, startX, startY>>]_vars

\* a wheel event arrived while the setting was disabled, after an earlier
\* zoom had changed the scale
C22_Witness ==
    /\ hist.event = "wheel"
    /\ formattingSettings # Undefined
    /\ formattingSettings.enableZoom = FALSE
    /\ currentScale # One
    /\ currentScale = hist.prevScale

----------------------------------------------------------------------------
(* Properties of the overlay after any sequence of renders (under          *)
(* SpecSurface)                                                            *)

IsOverlayPolygon(node) == node.origin = "overlay"

\* the data bound to the overlay shapes of the surface, in document order
OverlayData ==
    IF SurfaceSvgs = {} THEN <<>>
    ELSE LET svg    == svgContainer[CHOOSE i \in SurfaceSvgs : TRUE]
             shapes == SelectSeq(svg.polygons, IsOverlayPolygon)
         IN [k \in 1..Len(shapes) |-> shapes[k].datum]

Occurrences(seq, x) == Cardinality({k \in 1..Len(seq) : seq[k] = x})

\* C23: after every render whose SVG text parses successfully, the overlay
\* holds exactly one shape per PolygonVM of the current collection and no
\* shape whose key is absent from that collection.
C23_OverlayMatchesCollection ==
    (hist.rendered /\ SurfaceSvgs # {}) =>
        /\ \A j \in 1..Len(lastPolygons) :
                Occurrences(OverlayData, lastPolygons[j])
                    = Occurrences(lastPolygons, lastPolygons[j])
        /\ \A k \in 1..Len(OverlayData) :
                \E j \in 1..Len(lastPolygons) :
                    PolygonKey(lastPolygons[j]) = PolygonKey(OverlayData[k])

----------------------------------------------------------------------------
(* Properties of the label binder (under SpecBind)                         *)

\* the data points with a label key, by index
PointsOf(labelKey) ==
    {i \in 1..Len(lastDataPoints) :
        LabelKey(lastDataPoints[i].fieldNumber) = labelKey}

Last(S) == CHOOSE i \in S : \A j \in S : j <= i

\* the bound elements whose label key several rows share and for which no
\* polygon colour takes priority
SharedKeyElements ==
    {el \in BoundElements :
        /\ Cardinality(PointsOf(LabelKey(el.label))) >= 2
        /\ PolygonColorsOf(LabelKey(el.label)) = {}}

\* C24: when several rows share a label key, the DataPoint collection keeps
\* all of them in input row order, and the colour and the tooltip bound to the
\* matching markup element are those of the last such row (the default colour
\* and no tooltip when that row has none).
C24_LastRowWins ==
    /\ hist.table # Undefined =>
          RowKeys = [i \in 1..Len(lastDataPoints) |-> lastDataPoints[i].fieldNumber]
    /\ \A el \in SharedKeyElements :
          LET last == lastDataPoints[Last(PointsOf(LabelKey(el.label)))]
          IN /\ el.color = IF last.color # Undefined THEN last.color
                           ELSE Str(DefaultColor)
             /\ el.tip = IF last.tooltip # Undefined THEN last.tooltip ELSE Null

\* the data points with a label key that carry a colour / a tooltip
ColoredPointsOf(labelKey) ==
    {i \in PointsOf(labelKey) : Truthy(lastDataPoints[i].color)}

TooltipPointsOf(labelKey) ==
    {i \in PointsOf(labelKey) : lastDataPoints[i].tooltip # Undefined}

\* C24, amended: when several rows share a label key, the DataPoint collection
\* keeps all of them in input row order; the tooltip bound to the matching
\* markup element is that of the last such row that has a tooltip (none when
\* no such row has one) and, unless a PolygonVM with that key has a non-empty
\* colour, its colour is that of the last such row whose colour is non-empty
\* (the default colour when none is).
C24_LastRowWithValueWins ==
    /\ hist.table # Undefined =>
          RowKeys = [i \in 1..Len(lastDataPoints) |-> lastDataPoints[i].fieldNumber]
    /\ \A el \in BoundElements :
          LET key == LabelKey(el.label)
          IN Cardinality(PointsOf(key)) >= 2 =>
                /\ el.tip = IF TooltipPointsOf(key) = {} THEN Null
                            ELSE lastDataPoints[Last(TooltipPointsOf(key))].tooltip
                /\ PolygonColorsOf(key) = {} =>
                      el.color = IF ColoredPointsOf(key) = {} THEN Str(DefaultColor)
                                 ELSE lastDataPoints[Last(ColoredPointsOf(key))].color

\* two rows share the key of a bound element; the first has a colour and a
\* tooltip, the last has neither, and the element shows those of the first
C24_Witness ==
    \E el \in SharedKeyElements :
        LET key == LabelKey(el.label)
        IN /\ Last(PointsOf(key)) \notin ColoredPointsOf(key) \cup TooltipPointsOf(key)
           /\ ColoredPointsOf(key) # {}
           /\ TooltipPointsOf(key) # {}
           /\ el.color = lastDataPoints[Last(ColoredPointsOf(key))].color
           /\ el.tip = lastDataPoints[Last(TooltipPointsOf(key))].tooltip

\* C25: when a labelled element contains a use element that refers to a
\* definition by a local fragment reference, the referenced target has the
\* same fill and fill-opacity as the other shapes of that labelled element.
C25_UseTargetRecolored ==
    \A i \in SurfaceSvgs :
        \A k \in 1..Len(svgContainer[i].elements) :
            LET el == svgContainer[i].elements[k]
            IN el.color # Undefined =>
                \A u \in 1..Len(el.descendants), d \in 1..Len(svgContainer[i].defs) :
                    LET use    == el.descendants[u]
                        target == svgContainer[i].defs[d]
                    IN (/\ use.tag = "use"
                        /\ use.href = <<"#">> \o target.id)
                       => \A s \in 1..Len(el.descendants) :
                             el.descendants[s].tag \in ShapeSelector =>
                                /\ target.fill = el.descendants[s].fill
                                /\ target.fillOpacity = el.descendants[s].fillOpacity

\* C26: if a DOM mutation throws while binding one labelled element (setting
\* fill, opacity, stroke or cursor style, or wiring its handlers), binding
\* still completes for every other labelled element and the imported markup
\* stays on the surface rather than being replaced by the error placeholder.
C26_FailingElementIsIsolated ==
    (/\ hist.rendered
     /\ ParseSvg(hist.text).svg
     /\ host.dom.step # "none"
     /\ host.dom.at \in 1..Len(ParseSvg(hist.text).elements))
    => /\ SurfaceSvgs # {}
       /\ \A i \in 1..Len(svgContainer) : svgContainer[i] # ErrorPlaceholder
       /\ \A i \in SurfaceSvgs :
            \A k \in 1..Len(svgContainer[i].elements) :
                k # host.dom.at =>
                    /\ svgContainer[i].elements[k].wired
                    /\ svgContainer[i].elements[k].color # Undefined

\* the value of a cell: of the wrapper when the cell is one
CellValue(cell) == IF cell.t = "object" THEN cell.value ELSE cell

\* the tooltip columns whose cell value is non-null in a row of the last table
TooltipSources(row) ==
    {c \in ColumnsOf("tooltipFields") : ~IsNullish(CellValue(Cell(row, c)))}

\* C27: a DataPoint carries a tooltip mapping only if at least one tooltip
\* column yielded a non-null value for its row, and every entry of the mapping
\* comes from a tooltip column whose cell value for that row is non-null.
\* (The row of a data point is read off its table selection id.)
C27_TooltipFromNonNullCells ==
    hist.table # Undefined =>
        \A i \in 1..Len(lastDataPoints) :
            LET dp  == lastDataPoints[i]
                row == hist.table.rows[dp.selectionId.row + 1]
            IN dp.tooltip # Undefined =>
                /\ TooltipSources(row) # {}
                /\ \A e \in 1..Len(dp.tooltip.entries) :
                      \E c \in TooltipSources(row) :
                          TooltipName(hist.table.columns[c], c - 1)
                              = dp.tooltip.entries[e].k

----------------------------------------------------------------------------
(* Properties of the listeners of the labelled elements (under SpecHover)  *)

\* the selection identities of the data points with a label key
IdentitiesOf(labelKey) ==
    {lastDataPoints[i].selectionId :
        i \in {h \in PointsOf(labelKey) : ~IsNullish(lastDataPoints[h].selectionId)}}

\* C28: on a click of a labelled element, if any DataPoint of the render cycle
\* that wired the handler has a matching label key and carries a selection
\* identity, the host's select operation is invoked exactly once, with the
\* identity of such a DataPoint; otherwise select is not invoked; in both
\* cases no failure of the select call, synchronous or asynchronous, surfaces
\* as an uncaught error.
C28_ClickSelectsSafely ==
    hist.event = "click" =>
        /\ IF IdentitiesOf(LabelKey(hist.label)) # {}
           THEN /\ Len(hist.selected) = 1
                /\ hist.selected[1] \in IdentitiesOf(LabelKey(hist.label))
           ELSE hist.selected = <<>>
        /\ ~hist.unhandled

\* C29: whenever the tooltip is visible, the labelled element whose
\* pointer-enter showed it is still attached to the rendered surface: a host
\* update or an upload that replaces the surface while the pointer is over a
\* labelled element does not leave the tooltip displayed.
C29_TooltipOwnerAttached ==
    tooltipContainer.display = "block" =>
        \E k \in 1..Len(SurfaceElements) :
            /\ SurfaceElements[k].hovered
            /\ SurfaceElements[k].label = tooltipContainer.label

====
